---------------------------- MODULE Spec2Model ----------------------------
(***************************************************************************)
(* Receipt amount extraction of the tip calculator: lib/number-utils.ts    *)
(* (currency parsing, amount finding, categorisation, total validation)    *)
(* and lib/receipt-ocr.ts (scoring, selection, diagnostic message).        *)
(*                                                                         *)
(* Texts are TLA+ strings over ASCII; a character is a string of length 1. *)
(* JavaScript numbers are modelled as exact rationals [num, den] in lowest *)
(* terms: decimal literals and parsed amounts keep their decimal value, so *)
(* binary rounding of doubles is not modelled.                             *)
(***************************************************************************)
EXTENDS Integers, Sequences, FiniteSets, TLC

VARIABLES
    pc,          \* "ready": the call has its arguments; "done" (of a scan:
                 \* "extracted", then "reported"): it returned; "idle":
                 \* between the calls of a session
    args,        \* the arguments of the call
    ret,         \* what the call returned, or the calls of a session
    reLastIndex, \* lastIndex of the module-level RegExp objects
    locals,      \* extractedAmounts and scoredAmounts of the last
                 \* extractAmountsFromText when it returned; the local
                 \* variables of a running scanReceiptImage or processImage
    tesseract,   \* the OCR engine: the modes of the Tesseract.recognize
                 \* calls made, how many are running, the messages sent
                 \* to the logger, whether a call has failed
    ui           \* the React state and refs of the ReceiptScanner component

vars == <<pc, args, ret, reLastIndex, locals, tesseract, ui>>

\* the engine and the component take no part in a call of the library
NotScanning == tesseract = <<>> /\ ui = <<>>

---------------------------------------------------------------------------
(* Characters and strings                                                  *)

Digits == {"0", "1", "2", "3", "4", "5", "6", "7", "8", "9"}
UpperLetters ==
    {"A", "B", "C", "D", "E", "F", "G", "H", "I", "J", "K", "L", "M",
     "N", "O", "P", "Q", "R", "S", "T", "U", "V", "W", "X", "Y", "Z"}
LowerLetters ==
    {"a", "b", "c", "d", "e", "f", "g", "h", "i", "j", "k", "l", "m",
     "n", "o", "p", "q", "r", "s", "t", "u", "v", "w", "x", "y", "z"}
\* \s of a regular expression, within the model's alphabet
Whitespace == {" ", "\t", "\n"}
\* \w of a regular expression
WordChars == Digits \cup UpperLetters \cup LowerLetters \cup {"_"}
\* [$...] of RECEIPT_AMOUNT_PATTERN, within the model's alphabet
CurrencySymbols == {"$"}

Ch(s, i) == IF i >= 1 /\ i <= Len(s) THEN SubSeq(s, i, i) ELSE ""

DigitVal(c) ==
    CASE c = "0" -> 0 [] c = "1" -> 1 [] c = "2" -> 2 [] c = "3" -> 3
      [] c = "4" -> 4 [] c = "5" -> 5 [] c = "6" -> 6 [] c = "7" -> 7
      [] c = "8" -> 8 [] c = "9" -> 9

UpperOf(c) ==
    CASE c = "a" -> "A" [] c = "b" -> "B" [] c = "c" -> "C" [] c = "d" -> "D"
      [] c = "e" -> "E" [] c = "f" -> "F" [] c = "g" -> "G" [] c = "h" -> "H"
      [] c = "i" -> "I" [] c = "j" -> "J" [] c = "k" -> "K" [] c = "l" -> "L"
      [] c = "m" -> "M" [] c = "n" -> "N" [] c = "o" -> "O" [] c = "p" -> "P"
      [] c = "q" -> "Q" [] c = "r" -> "R" [] c = "s" -> "S" [] c = "t" -> "T"
      [] c = "u" -> "U" [] c = "v" -> "V" [] c = "w" -> "W" [] c = "x" -> "X"
      [] c = "y" -> "Y" [] c = "z" -> "Z" [] OTHER -> c

RECURSIVE toUpperCase(_)
toUpperCase(s) ==
    IF s = "" THEN "" ELSE UpperOf(Head(s)) \o toUpperCase(Tail(s))

\* s.replace(/[set]/g, '')
RECURSIVE RemoveChars(_, _)
RemoveChars(s, set) ==
    IF s = "" THEN ""
    ELSE (IF Head(s) \in set THEN "" ELSE Head(s)) \o RemoveChars(Tail(s), set)

\* s.replace(/[^set]/g, '')
RECURSIVE KeepChars(_, _)
KeepChars(s, set) ==
    IF s = "" THEN ""
    ELSE (IF Head(s) \in set THEN Head(s) ELSE "") \o KeepChars(Tail(s), set)

RECURSIVE TrimStart(_)
TrimStart(s) ==
    IF s # "" /\ Head(s) \in Whitespace THEN TrimStart(Tail(s)) ELSE s

RECURSIVE TrimEnd(_)
TrimEnd(s) ==
    IF s # "" /\ Ch(s, Len(s)) \in Whitespace
    THEN TrimEnd(SubSeq(s, 1, Len(s) - 1))
    ELSE s

\* s.trim()
Trim(s) == TrimEnd(TrimStart(s))

\* s.includes(c) for a character c
Includes(s, c) == \E i \in 1..Len(s) : Ch(s, i) = c

\* s.lastIndexOf(c), one-based; 0 when absent
LastIndexOf(s, c) ==
    IF Includes(s, c)
    THEN CHOOSE i \in 1..Len(s) :
             Ch(s, i) = c /\ \A j \in (i + 1)..Len(s) : Ch(s, j) # c
    ELSE 0

CountOf(s, c) == Cardinality({i \in 1..Len(s) : Ch(s, i) = c})

\* /^\d+$/.test(s)
AllDigits(s) == s # "" /\ \A i \in 1..Len(s) : Ch(s, i) \in Digits

\* the integer a string of digits denotes
RECURSIVE DigitsToInt(_)
DigitsToInt(s) ==
    IF s = "" THEN 0
    ELSE 10 * DigitsToInt(SubSeq(s, 1, Len(s) - 1)) + DigitVal(Ch(s, Len(s)))

RECURSIVE Pow10(_)
Pow10(n) == IF n = 0 THEN 1 ELSE 10 * Pow10(n - 1)

---------------------------------------------------------------------------
(* Numbers: exact rationals in lowest terms; den = 0 is null               *)

RECURSIVE GCD(_, _)
GCD(a, b) == IF b = 0 THEN a ELSE GCD(b, a % b)

Abs(n) == IF n < 0 THEN -n ELSE n

Rat(n, d) ==
    LET g == GCD(Abs(n), Abs(d))
        s == IF d < 0 THEN -1 ELSE 1
    IN  [num |-> s * (n \div g), den |-> s * (d \div g)]

NULL == [num |-> 0, den |-> 0]
Zero == [num |-> 0, den |-> 1]
One == [num |-> 1, den |-> 1]

\* a decimal literal such as 4.2 is Dec(42, 1)
Dec(mantissa, places) == Rat(mantissa, Pow10(places))

RAdd(a, b) ==
    LET g == GCD(a.den, b.den)
    IN  Rat(a.num * (b.den \div g) + b.num * (a.den \div g),
            (a.den \div g) * b.den)
RNeg(a) == [num |-> -a.num, den |-> a.den]
RSub(a, b) == RAdd(a, RNeg(b))
RMul(a, b) ==
    LET g1 == GCD(Abs(a.num), b.den)
        g2 == GCD(Abs(b.num), a.den)
    IN  Rat((a.num \div g1) * (b.num \div g2), (a.den \div g2) * (b.den \div g1))
RDiv(a, b) == RMul(a, Rat(b.den, b.num))
RAbs(a) == [num |-> Abs(a.num), den |-> a.den]
\* a < b, a <= b by cross-multiplication after cancelling common factors
RLt(a, b) ==
    LET g == GCD(a.den, b.den)
    IN  a.num * (b.den \div g) < b.num * (a.den \div g)
RLe(a, b) == a = b \/ RLt(a, b)
RMin(a, b) == IF RLt(b, a) THEN b ELSE a
RMax(a, b) == IF RLt(a, b) THEN b ELSE a

---------------------------------------------------------------------------
(* parseCurrencyString                                                     *)

NumberFormats == {"us", "european", "mixed"}

\* Number.parseFloat(`${integerPart}.${fractionPart}`) on digit strings
ParseFloatParts(integerPart, fractionPart) ==
    Rat(DigitsToInt(integerPart) * Pow10(Len(fractionPart))
            + DigitsToInt(fractionPart),
        Pow10(Len(fractionPart)))

\* Number.parseFloat of /^[-]?\d+$/
ParseFloatInteger(s) ==
    IF Ch(s, 1) = "-"
    THEN Rat(-DigitsToInt(Tail(s)), 1)
    ELSE Rat(DigitsToInt(s), 1)

\* The first two replaces and the trim: only digits, '.', ',', apostrophe,
\* whitespace and '-' are kept.
CleanCurrencyString(valueStr) ==
    Trim(KeepChars(valueStr, Digits \cup {".", ",", "'", "-"} \cup Whitespace))

\* cleaned.replace(/\s+/g, '').replace(/'/g, '') and then
\* .replace(/(?!^)-/g, ''): every '-' but a leading one goes
NormalizeCurrencyString(cleaned) ==
    LET stripped == RemoveChars(cleaned, Whitespace \cup {"'"})
    IN  IF stripped = "" THEN ""
        ELSE Head(stripped) \o RemoveChars(Tail(stripped), {"-"})

\* the first separator of the string taken as the decimal separator
ChooseFirstSeparator(normalized, formatHint) ==
    IF \E i \in 1..Len(normalized) : Ch(normalized, i) \in {",", "."}
    THEN Ch(normalized, CHOOSE i \in 1..Len(normalized) :
                           /\ Ch(normalized, i) \in {",", "."}
                           /\ \A j \in 1..(i - 1) : Ch(normalized, j) \notin {",", "."})
    ELSE ""

\* a separator that occurs more than once is never the decimal separator
ChooseGroupingWhenRepeated(normalized, formatHint) ==
    LET hasComma == Includes(normalized, ",")
        hasDot == Includes(normalized, ".")
        separator == IF hasComma THEN "," ELSE IF hasDot THEN "." ELSE ""
        lastPartLength == Len(normalized) - LastIndexOf(normalized, separator)
    IN  IF hasComma /\ hasDot
        THEN (IF LastIndexOf(normalized, ",") > LastIndexOf(normalized, ".")
              THEN "," ELSE ".")
        ELSE IF separator = "" THEN ""
        ELSE IF CountOf(normalized, separator) > 1 THEN ""
        ELSE IF lastPartLength <= 2 THEN separator
        ELSE ""

\* a single separator before three digits read by the hint: a decimal
\* point under 'us', a decimal comma under 'european'
ChooseByHint(normalized, formatHint) ==
    LET hasComma == Includes(normalized, ",")
        hasDot == Includes(normalized, ".")
        separator == IF hasComma THEN "," ELSE IF hasDot THEN "." ELSE ""
        lastPartLength == Len(normalized) - LastIndexOf(normalized, separator)
        isSingleSeparator == CountOf(normalized, separator) = 1
    IN  IF hasComma /\ hasDot
        THEN (IF LastIndexOf(normalized, ",") > LastIndexOf(normalized, ".")
              THEN "," ELSE ".")
        ELSE IF separator = "" THEN ""
        ELSE IF lastPartLength <= 2 THEN separator
        ELSE IF lastPartLength = 3 /\ isSingleSeparator
        THEN (IF formatHint = "us" /\ separator = "." THEN "."
              ELSE IF formatHint = "european" /\ separator = "," THEN ","
              ELSE "")
        ELSE ""

chooseDecimalSeparator(normalized, formatHint) ==
    LET hasComma == Includes(normalized, ",")
        hasDot == Includes(normalized, ".")
        separator == IF hasComma THEN "," ELSE IF hasDot THEN "." ELSE ""
        lastPartLength == Len(normalized) - LastIndexOf(normalized, separator)
        isSingleSeparator == CountOf(normalized, separator) = 1
    IN  IF hasComma /\ hasDot
        THEN (IF LastIndexOf(normalized, ",") > LastIndexOf(normalized, ".")
              THEN "," ELSE ".")
        ELSE IF separator = "" THEN ""
        ELSE IF lastPartLength <= 2 THEN separator
        ELSE IF lastPartLength = 3 /\ ~isSingleSeparator THEN ""
        ELSE IF lastPartLength = 3 /\ isSingleSeparator
        THEN (IF formatHint = "european" THEN "" ELSE "")
        ELSE ""

\* every character that is not a digit dropped, the rest read as a number
ParseDigitsOnly(valueStr, formatHint) ==
    Rat(DigitsToInt(KeepChars(valueStr, Digits)), 1)

parseCurrencyString(valueStr, formatHint) ==
    IF valueStr = "" THEN NULL
    ELSE
    LET cleaned == CleanCurrencyString(valueStr)
    IN  IF cleaned = "" \/ ~(\E i \in 1..Len(cleaned) : Ch(cleaned, i) \in Digits)
        THEN NULL
        ELSE
        LET normalized == NormalizeCurrencyString(cleaned)
            decimalSeparator == chooseDecimalSeparator(normalized, formatHint)
            cut == LastIndexOf(normalized, decimalSeparator)
            fractionPart == SubSeq(normalized, cut + 1, Len(normalized))
            integerPart == RemoveChars(SubSeq(normalized, 1, cut - 1), {".", ","})
            integerLike == RemoveChars(normalized, {".", ","})
        IN  IF decimalSeparator # ""
            THEN (IF ~AllDigits(integerPart) \/ ~AllDigits(fractionPart)
                  THEN NULL
                  ELSE ParseFloatParts(integerPart, fractionPart))
            ELSE IF AllDigits(integerLike)
                     \/ (Ch(integerLike, 1) = "-" /\ AllDigits(Tail(integerLike)))
            THEN ParseFloatInteger(integerLike)
            ELSE NULL

RECURSIVE NatToString(_)
NatToString(n) ==
    LET d == CHOOSE c \in Digits : DigitVal(c) = n % 10
    IN  IF n < 10 THEN d ELSE NatToString(n \div 10) \o d

\* value.toFixed(2) of a value >= 0: the nearest multiple of 0.01, the larger
\* one when two are equally near
toFixed2(value) ==
    LET hundredths == (2 * 100 * value.num + value.den) \div (2 * value.den)
        cents == hundredths % 100
    IN  NatToString(hundredths \div 100) \o "."
            \o (IF cents < 10 THEN "0" ELSE "") \o NatToString(cents)

---------------------------------------------------------------------------
(* Regular expressions                                                     *)
(*                                                                         *)
(* A keyword pattern is a sequence of alternatives, an alternative a       *)
(* sequence of elements: a literal, or one of "\\s*", "\\s+", "\\s",       *)
(* "[:\\s]", "\\b" and "^". The flag i is modelled by matching the         *)
(* upper-cased subject against upper-case literals.                        *)

SubStr(s, i, n) == IF i >= 1 /\ i + n - 1 <= Len(s) THEN SubSeq(s, i, i + n - 1) ELSE ""

RECURSIVE SkipWs(_, _)
SkipWs(s, i) == IF Ch(s, i) \in Whitespace THEN SkipWs(s, i + 1) ELSE i

IsWordAt(s, i) == Ch(s, i) \in WordChars

\* The position after a match of alt[k..] that starts at i; 0 when none.
\* "\\s*" and "\\s+" take the whole run: every element that follows one in
\* the patterns below is a literal, which cannot start inside the run.
RECURSIVE MatchFrom(_, _, _, _)
MatchFrom(s, i, alt, k) ==
    IF k > Len(alt) THEN i
    ELSE
    LET e == alt[k]
    IN  CASE e = "\\s*" -> MatchFrom(s, SkipWs(s, i), alt, k + 1)
          [] e = "\\s+" -> IF Ch(s, i) \in Whitespace
                           THEN MatchFrom(s, SkipWs(s, i), alt, k + 1) ELSE 0
          [] e = "\\s" -> IF Ch(s, i) \in Whitespace
                          THEN MatchFrom(s, i + 1, alt, k + 1) ELSE 0
          [] e = "[:\\s]" -> IF Ch(s, i) \in Whitespace \cup {":"}
                             THEN MatchFrom(s, i + 1, alt, k + 1) ELSE 0
          [] e = "\\b" -> IF IsWordAt(s, i - 1) # IsWordAt(s, i)
                          THEN MatchFrom(s, i, alt, k + 1) ELSE 0
          [] e = "^" -> IF i = 1 \/ Ch(s, i - 1) = "\n"
                        THEN MatchFrom(s, i, alt, k + 1) ELSE 0
          [] OTHER -> IF SubStr(s, i, Len(e)) = e
                      THEN MatchFrom(s, i + Len(e), alt, k + 1) ELSE 0

\* The position after the match of the first alternative that matches at i
RECURSIVE MatchAltsAt(_, _, _, _)
MatchAltsAt(s, i, alts, a) ==
    IF a > Len(alts) THEN 0
    ELSE LET end == MatchFrom(s, i, alts[a], 1)
         IN  IF end # 0 THEN end ELSE MatchAltsAt(s, i, alts, a + 1)

\* The leftmost match at or after position i: its end position, 0 when none
RECURSIVE SearchFrom(_, _, _)
SearchFrom(s, i, alts) ==
    IF i > Len(s) + 1 THEN 0
    ELSE LET end == MatchAltsAt(s, i, alts, 1)
         IN  IF end # 0 THEN end ELSE SearchFrom(s, i + 1, alts)

\* text.split("\n")
RECURSIVE Split(_, _)
Split(s, sep) ==
    IF ~Includes(s, sep) THEN <<s>>
    ELSE LET i == CHOOSE j \in 1..Len(s) :
                      Ch(s, j) = sep /\ \A h \in 1..(j - 1) : Ch(s, h) # sep
         IN  <<SubSeq(s, 1, i - 1)>> \o Split(SubSeq(s, i + 1, Len(s)), sep)

\* s.replace(/\s+/g, ' ')
RECURSIVE CollapseWhitespace(_)
CollapseWhitespace(s) ==
    IF s = "" THEN ""
    ELSE IF Head(s) \in Whitespace
    THEN " " \o CollapseWhitespace(SubSeq(s, SkipWs(s, 1), Len(s)))
    ELSE Head(s) \o CollapseWhitespace(Tail(s))

---------------------------------------------------------------------------
(* RECEIPT_AMOUNT_PATTERN and String.prototype.matchAll                    *)

\* [.,'\s] before a group of three digits
GroupSeparators == {".", ",", "'"} \cup Whitespace

RECURSIVE DigitRun(_, _)
DigitRun(s, i) == IF Ch(s, i) \in Digits THEN 1 + DigitRun(s, i + 1) ELSE 0

\* how many (?:[.,'\s]\d{3}) follow one another from position q
RECURSIVE GroupCount(_, _)
GroupCount(s, q) ==
    IF Ch(s, q) \in GroupSeparators /\ Ch(s, q + 1) \in Digits
          /\ Ch(s, q + 2) \in Digits /\ Ch(s, q + 3) \in Digits
    THEN 1 + GroupCount(s, q + 4)
    ELSE 0

\* the position after a greedy (?:[.,]\d{1,2})? at r
DecimalEnd(s, r) ==
    IF Ch(s, r) \in {".", ","} /\ Ch(s, r + 1) \in Digits
    THEN (IF Ch(s, r + 2) \in Digits THEN r + 3 ELSE r + 2)
    ELSE r

\* One attempt of RECEIPT_AMOUNT_PATTERN at position i:
\*   (?:[$]\s*)?  (\d{1,3}(?:[.,'\s]\d{3})+(?:[.,]\d{1,2})? | \d+(?:[.,]\d{1,2})?)
\*   (?:\s*[$])?
\* The first alternative needs a separator right after its one to three
\* digits, so it matches only when the whole digit run has at most three
\* digits; everything after the digits is optional and greedy.
RECEIPT_AMOUNT_PATTERN(s, i) ==
    LET p == IF Ch(s, i) \in CurrencySymbols THEN SkipWs(s, i + 1) ELSE i
        run == DigitRun(s, p)
        groups == IF run <= 3 THEN GroupCount(s, p + run) ELSE 0
        e == DecimalEnd(s, p + run + 4 * groups)
        t == SkipWs(s, e)
    IN  IF run = 0 THEN [found |-> FALSE, group1 |-> "", next |-> i + 1]
        ELSE [found |-> TRUE,
              group1 |-> SubSeq(s, p, e - 1),
              next |-> IF Ch(s, t) \in CurrencySymbols THEN t + 1 ELSE e]

\* line.matchAll(RECEIPT_AMOUNT_PATTERN): the matches' first groups, in
\* order. The matcher is a clone that starts at the lastIndex of the
\* original (zero-based), which it never writes.
RECURSIVE MatchAllFrom(_, _)
MatchAllFrom(s, i) ==
    IF i > Len(s) THEN <<>>
    ELSE LET m == RECEIPT_AMOUNT_PATTERN(s, i)
         IN  IF m.found THEN <<m.group1>> \o MatchAllFrom(s, m.next)
             ELSE MatchAllFrom(s, i + 1)

matchAll(s, lastIndex) == MatchAllFrom(s, lastIndex + 1)

---------------------------------------------------------------------------
(* detectNumberFormat                                                      *)

\* The end of /\b\d{1,3}(?:[.,'\s]\d{3})*(?:[.,]\d{1,2})?\b/ tried at i with
\* g groups, backtracking from two decimals to one to none and then to
\* fewer groups until the closing \b holds; 0 when no choice does.
RECURSIVE FormatTokenEnd(_, _, _)
FormatTokenEnd(s, first, g) ==
    LET r == first + 4 * g
        dec == DecimalEnd(s, r)
    IN  IF dec = r + 3 /\ ~IsWordAt(s, r + 3) THEN r + 3
        ELSE IF dec >= r + 2 /\ ~IsWordAt(s, r + 2) THEN r + 2
        ELSE IF ~IsWordAt(s, r) THEN r
        ELSE IF g = 0 THEN 0
        ELSE FormatTokenEnd(s, first, g - 1)

\* text.match(/.../g): the matched tokens, in order
RECURSIVE FormatTokens(_, _)
FormatTokens(s, i) ==
    IF i > Len(s) THEN <<>>
    ELSE
    LET run == DigitRun(s, i)
        end == IF run >= 1 /\ run <= 3 /\ ~IsWordAt(s, i - 1)
               THEN FormatTokenEnd(s, i + run, GroupCount(s, i + run))
               ELSE 0
    IN  IF end # 0 THEN <<SubSeq(s, i, end - 1)>> \o FormatTokens(s, end)
        ELSE FormatTokens(s, i + 1)

\* "european", "us" or "" (neither counter moves) for one matched token
FormatLeaning(raw) ==
    LET match == RemoveChars(raw, Whitespace \cup {"'"})
        hasComma == Includes(match, ",")
        hasDot == Includes(match, ".")
        lastComma == Len(match) - LastIndexOf(match, ",")
        lastDot == Len(match) - LastIndexOf(match, ".")
    IN  IF hasComma /\ hasDot
        THEN (IF LastIndexOf(match, ",") > LastIndexOf(match, ".")
              THEN "european" ELSE "us")
        ELSE IF hasComma THEN (IF lastComma <= 2 THEN "european" ELSE "us")
        ELSE IF hasDot THEN (IF lastDot <= 2 THEN "us" ELSE "european")
        ELSE ""

\* the leaning of most tokens, however few
DetectByMajority(text) ==
    LET matches == FormatTokens(text, 1)
        europeanCount ==
            Cardinality({i \in 1..Len(matches) : FormatLeaning(matches[i]) = "european"})
        usCount ==
            Cardinality({i \in 1..Len(matches) : FormatLeaning(matches[i]) = "us"})
    IN  IF europeanCount > usCount THEN "european"
        ELSE IF usCount > europeanCount THEN "us"
        ELSE "mixed"

detectNumberFormat(text) ==
    LET matches == FormatTokens(text, 1)
        europeanCount ==
            Cardinality({i \in 1..Len(matches) : FormatLeaning(matches[i]) = "european"})
        usCount ==
            Cardinality({i \in 1..Len(matches) : FormatLeaning(matches[i]) = "us"})
    IN  IF Len(matches) < 3 THEN "us"
        ELSE IF 2 * europeanCount > 3 * usCount THEN "european"
        ELSE IF 2 * usCount > 3 * europeanCount THEN "us"
        ELSE "mixed"

---------------------------------------------------------------------------
(* findAmountsInText                                                       *)

HundredThousand == Rat(100000, 1)

\* any number greater than 0
IsPositiveAmount(value) ==
    /\ value # NULL
    /\ RLt(Zero, value)

isValidReceiptAmount(value) ==
    /\ value # NULL
    /\ RLt(Zero, value)
    /\ RLt(value, HundredThousand)

\* the candidates of one line, from its matches m[k..]
RECURSIVE LineAmounts(_, _, _, _, _)
LineAmounts(m, k, lineText, index, formatHint) ==
    IF k > Len(m) THEN <<>>
    ELSE
    LET value == parseCurrencyString(m[k], formatHint)
        rest == LineAmounts(m, k + 1, lineText, index, formatHint)
    IN  IF value # NULL /\ isValidReceiptAmount(value)
        THEN <<[value |-> value, context |-> lineText, lineIndex |-> index]>> \o rest
        ELSE rest

\* the context taken from the lines around the match as well
RECURSIVE AmountsWithWindowContext(_, _, _, _)
AmountsWithWindowContext(lines, n, formatHint, lastIndex) ==
    IF n > Len(lines) THEN <<>>
    ELSE
    LET window == (IF n > 1 THEN lines[n - 1] \o " " ELSE "") \o lines[n]
                      \o (IF n < Len(lines) THEN " " \o lines[n + 1] ELSE "")
    IN  LineAmounts(matchAll(lines[n], lastIndex), 1, window, n - 1, formatHint)
            \o AmountsWithWindowContext(lines, n + 1, formatHint, lastIndex)

RECURSIVE AmountsFromLine(_, _, _, _)
AmountsFromLine(lines, n, formatHint, lastIndex) ==
    IF n > Len(lines) THEN <<>>
    ELSE
    LET line == lines[n]
        lineText == Trim(CollapseWhitespace(line))
        matches == matchAll(line, lastIndex)
    IN  LineAmounts(matches, 1, lineText, n - 1, formatHint)
            \o AmountsFromLine(lines, n + 1, formatHint, lastIndex)

\* lastIndex is that of the module-level RECEIPT_AMOUNT_PATTERN
findAmountsInText(text, lastIndex) ==
    AmountsFromLine(Split(text, "\n"), 1, detectNumberFormat(text), lastIndex)

---------------------------------------------------------------------------
(* Inputs                                                                  *)

\* the longest text put together freely from LineMenu, in lines
MaxFreeLines == 3

LineMenu ==
    {"SUBTOTAL 45.00", "TAX 4.50", "TOTAL 51.50", "CASH 60.00", "CHANGE 8.50",
     "PAID 1 2", "Thank you", " Total:  9.99\t9.99 "}

RECURSIVE JoinedLines(_)
JoinedLines(n) ==
    IF n = 1 THEN LineMenu
    ELSE LET shorter == JoinedLines(n - 1)
         IN  shorter \cup {t \o "\n" \o l : t \in shorter, l \in LineMenu}

FreeTexts == {""} \cup JoinedLines(MaxFreeLines)

\* Receipts that end in a payment: SUBTOTAL s, TAX t, TIP p, TOTAL s+t+p,
\* CASH c, CHANGE c - total, with c > total
ReceiptSubtotals == {"45.00", "0.40"}
ReceiptTaxes == {"4.50", "0.03"}
ReceiptTips == {"2.00", "9.00"}
ReceiptCash == {"60.00", "103.00", "1.00"}

ReceiptTotal(s, t, p) ==
    RAdd(RAdd(parseCurrencyString(s, "us"), parseCurrencyString(t, "us")),
         parseCurrencyString(p, "us"))

ReceiptText(s, t, p, c) ==
    "SUBTOTAL " \o s \o "\nTAX " \o t \o "\nTIP " \o p
        \o "\nTOTAL " \o toFixed2(ReceiptTotal(s, t, p))
        \o "\nCASH " \o c
        \o "\nCHANGE " \o toFixed2(RSub(parseCurrencyString(c, "us"), ReceiptTotal(s, t, p)))

ReceiptParameters ==
    {q \in ReceiptSubtotals \X ReceiptTaxes \X ReceiptTips \X ReceiptCash :
        RLt(ReceiptTotal(q[1], q[2], q[3]), parseCurrencyString(q[4], "us"))}

ReceiptTexts == {ReceiptText(q[1], q[2], q[3], q[4]) : q \in ReceiptParameters}

\* Texts whose candidates can score the same on different lines: the later
\* line's lead of 1.6 or 0.8 in position is made up by a value below 1, by a
\* smaller share of the largest value or by the tax category
TieLines == {"2.00", "0.80", "4.50", "TAX 4.50"}
TiedTexts ==
    {a \o "\n" \o b : a, b \in TieLines}
        \cup {"Thank you\n" \o a \o "\n" \o b : a, b \in TieLines}

Texts == FreeTexts \cup ReceiptTexts \cup TiedTexts

\* the parameters of a receipt text
ReceiptOf == [t \in ReceiptTexts |->
                 CHOOSE q \in ReceiptParameters : t = ReceiptText(q[1], q[2], q[3], q[4])]

\* Tokens put to detectNumberFormat, one to a line after a label: comma and
\* dot as decimal separator, dot and space as grouping separator, and none
DetectTokens == {"12,50", "1.234", "12.50", "1 234.56", "12"}

\* the receipts of the tests of detectNumberFormat
EuropeanReceipt == "SUBTOTAL 1.234,00\nTAX 12,34\nTOTAL 1.246,34"
UsReceipt == "SUBTOTAL 1,234.00\nTAX 12.34\nTOTAL 1,246.34"

\* Lines put to findAmountsInText: tokens at and around the bounds 0 and
\* 100000, grouped and ungrouped, and lines without a token
FindMenu ==
    {"0", "0.00 5", "0.01", "100000", "99999.99", "100,000.00", "1.234.567,89",
     "$ 5 x 12,5", "abc", "007"}

\* Lines put to categorizeAmount: payment keywords beside the keywords of the
\* other rules, payment keywords inside longer words, and lines without them
CategorizeMenu ==
    {"GRAND TOTAL PAID 50.00", "SUBTOTAL CARD 45.00", "TAX PAID 4.50",
     "TIP cash 2.00", "TOTAL 51.50 VISA", "amex 900.00", "CASHIER TOTAL 51.50",
     "PREPAID TAX 0.10", "TOTAL 51.50", "Coffee 3.00",
     "ITEMS TOTAL 12.00", "Sub Total 45.00", "TOTAL AFTER DISCOUNT 40.00"}

\* Lines put to validateTotalRelationship, each one candidate
ValidateMenu == {"SUBTOTAL 40.00", "SUBTOTAL 10.00", "TAX 1.00", "TIP 2.00"}
ValidateSubtotalRun == {"SUBTOTAL 40.00", "SUBTOTAL 10.00"}
ValidateTaxRun == {"TAX 1.00", "TAX 4.00"}
ValidateTipRun == {"TIP 2.00", "TIP 8.00"}

\* Texts put to a session of calls
SessionTexts ==
    {"", "Thank you", "TOTAL DUE 51.50", " Total:  9.99\t9.99 ",
     "CASH 60.00\nCHANGE 8.50", "SUBTOTAL 45.00\nTAX 4.50\nTOTAL 49.50"}

---------------------------------------------------------------------------
(* Keyword patterns                                                        *)

\* number-utils.ts
SubtotalKeywords ==
    << <<"SUB", "\\s*", "TOTAL">>, <<"SUBTOTAL">>, <<"SUB-TOTAL">>,
       <<"BEFORE", "\\s*", "TAX">> >>
\* /(?:TAX|HST|GST|PST|VAT)\b/i
TaxWordKeywords ==
    << <<"TAX", "\\b">>, <<"HST", "\\b">>, <<"GST", "\\b">>, <<"PST", "\\b">>,
       <<"VAT", "\\b">> >>
\* /(?:TIP|GRATUITY|SERVICE)\b/i
TipWordKeywords ==
    << <<"TIP", "\\b">>, <<"GRATUITY", "\\b">>, <<"SERVICE", "\\b">> >>

PaymentKeywords ==
    << <<"\\b", "CASH", "\\b">>, <<"\\b", "CHANGE", "\\b">>,
       <<"\\b", "TENDERED", "\\b">>, <<"\\b", "PAID", "\\b">>,
       <<"\\b", "APPROVAL", "\\b">>, <<"\\b", "AUTH", "\\b">>,
       <<"\\b", "CARD", "\\b">>, <<"\\b", "VISA", "\\b">>,
       <<"\\b", "MASTERCARD", "\\b">>, <<"\\b", "AMEX", "\\b">> >>
StrongTotalKeywords ==
    << <<"GRAND", "\\s*", "TOTAL">>, <<"TOTAL", "\\s*", "DUE">>,
       <<"AMOUNT", "\\s*", "DUE">>, <<"BALANCE", "\\s*", "DUE">>,
       <<"PLEASE", "\\s*", "PAY">>, <<"FINAL", "\\s+", "AMOUNT">>,
       <<"TO", "\\s*", "PAY">> >>
\* /(?:^|\s)TOTAL[:\s]/im
StandaloneTotal ==
    << <<"^", "TOTAL", "[:\\s]">>, <<"\\s", "TOTAL", "[:\\s]">> >>
\* SUB before TOTAL and no other qualifier
QualifiedTotalSubOnly == << <<"SUB", "\\s*", "TOTAL">> >>
\* /(?:SUB|ITEM|SAVINGS?|DISCOUNT|MERCHANDISE|FOOD|ITEMS?)\s*TOTAL/i
QualifiedTotal ==
    << <<"SUB", "\\s*", "TOTAL">>, <<"ITEM", "\\s*", "TOTAL">>,
       <<"SAVINGS", "\\s*", "TOTAL">>, <<"SAVING", "\\s*", "TOTAL">>,
       <<"DISCOUNT", "\\s*", "TOTAL">>, <<"MERCHANDISE", "\\s*", "TOTAL">>,
       <<"FOOD", "\\s*", "TOTAL">>, <<"ITEMS", "\\s*", "TOTAL">> >>
TaxKeywords == << <<"TAX">>, <<"HST">>, <<"GST">>, <<"PST">>, <<"VAT">> >>
TipKeywords == << <<"TIP">>, <<"GRATUITY">>, <<"SERVICE">> >>


\* The module-level RegExp objects of receipt-ocr.ts: none has the flag g
RELATIONSHIP_ANCHOR_PATTERN ==
    [alts |-> << <<"SUB", "\\s*", "TOTAL">>, <<"SUBTOTAL">>, <<"SUB-TOTAL">>,
                 <<"BEFORE", "\\s*", "TAX">>, <<"TAX">>, <<"HST">>, <<"GST">>,
                 <<"PST">>, <<"VAT">>, <<"TIP">>, <<"GRATUITY">>, <<"SERVICE">> >>,
     global |-> FALSE]
\* the strong pattern with the flag g
StrongPatternWithFlagG ==
    [alts |-> << <<"\\b", "GRAND", "\\s*", "TOTAL", "\\b">>,
                 <<"\\b", "AMOUNT", "\\s*", "DUE", "\\b">>,
                 <<"\\b", "BALANCE", "\\s*", "DUE", "\\b">>,
                 <<"\\b", "FINAL", "\\s*", "AMOUNT", "\\b">>,
                 <<"\\b", "TOTAL", "\\s*", "DUE", "\\b">>,
                 <<"\\b", "TOTAL", "\\s*", "AMOUNT", "\\b">>,
                 <<"\\b", "TO", "\\s*", "PAY", "\\b">> >>,
     global |-> TRUE]
STRONG_TOTAL_SIGNAL_PATTERN ==
    [alts |-> << <<"\\b", "GRAND", "\\s*", "TOTAL", "\\b">>,
                 <<"\\b", "AMOUNT", "\\s*", "DUE", "\\b">>,
                 <<"\\b", "BALANCE", "\\s*", "DUE", "\\b">>,
                 <<"\\b", "FINAL", "\\s*", "AMOUNT", "\\b">>,
                 <<"\\b", "TOTAL", "\\s*", "DUE", "\\b">>,
                 <<"\\b", "TOTAL", "\\s*", "AMOUNT", "\\b">>,
                 <<"\\b", "TO", "\\s*", "PAY", "\\b">> >>,
     global |-> FALSE]
WeakPatternWithoutTotal ==
    [alts |-> << <<"\\b", "SUM", "\\b">>, <<"\\b", "AMOUNT", "\\b">>,
                 <<"\\b", "DUE", "\\b">>, <<"\\b", "BAL", "\\b">> >>,
     global |-> FALSE]
WEAK_TOTAL_SIGNAL_PATTERN ==
    [alts |-> << <<"\\b", "TOTAL", "\\b">>, <<"\\b", "SUM", "\\b">>,
                 <<"\\b", "AMOUNT", "\\b">>, <<"\\b", "DUE", "\\b">>,
                 <<"\\b", "BAL", "\\b">> >>,
     global |-> FALSE]
MISLEADING_TOTAL_SIGNAL_PATTERN ==
    [alts |-> << <<"\\b", "ITEMS", "\\s*", "TOTAL", "\\b">>,
                 <<"\\b", "ITEM", "\\s*", "TOTAL", "\\b">>,
                 <<"\\b", "TOTAL", "\\s*", "SAVINGS", "\\b">>,
                 <<"\\b", "TOTAL", "\\s*", "SAVING", "\\b">>,
                 <<"\\b", "SAVINGS", "\\s*", "TOTAL", "\\b">>,
                 <<"\\b", "SAVING", "\\s*", "TOTAL", "\\b">>,
                 <<"\\b", "DISCOUNT", "\\b">>,
                 <<"\\b", "MERCHANDISE", "\\b">>,
                 <<"\\b", "FOOD", "\\s*", "TOTAL", "\\b">> >>,
     global |-> FALSE]
PAYMENT_SIGNAL_PATTERN == [alts |-> PaymentKeywords, global |-> FALSE]

\* /alts/i.test(s) of a regular expression literal without the flag g
TestI(alts, s) == SearchFrom(toUpperCase(s), 1, alts) # 0

\* RegExp.prototype.test of a RegExp object re = [alts, global] whose
\* lastIndex is li (zero-based): [found, lastIndex]. Without the flag g the
\* search starts at 0 and lastIndex is left alone; with it the search starts
\* at lastIndex, which becomes the end of the match, or 0 on failure.
RegExpTest(re, li, s) ==
    IF re.global
    THEN LET end == IF li > Len(s) THEN 0
                    ELSE SearchFrom(toUpperCase(s), li + 1, re.alts)
         IN  [found |-> end # 0, lastIndex |-> IF end # 0 THEN end - 1 ELSE 0]
    ELSE [found |-> TestI(re.alts, s), lastIndex |-> li]

---------------------------------------------------------------------------
(* Array helpers                                                           *)

\* The comparator of an Array.prototype.sort call says a goes before b:
\*   "lineIndex":  (a, b) => b.lineIndex - a.lineIndex
\*   "value":      (a, b) => b.value - a.value
\*   "score":      (a, b) => b.score - a.score || b.lineIndex - a.lineIndex
PrecedesWithoutTieBreak(a, b, by) ==
    CASE by = "lineIndex" -> a.lineIndex > b.lineIndex
      [] by = "value" -> RLt(b.value, a.value)
      [] by = "score" -> RLt(b.score, a.score)

Precedes(a, b, by) ==
    CASE by = "lineIndex" -> a.lineIndex > b.lineIndex
      [] by = "value" -> RLt(b.value, a.value)
      [] by = "score" -> \/ RLt(b.score, a.score)
                         \/ (a.score = b.score /\ a.lineIndex > b.lineIndex)

\* x put into the sorted sequence: before the first element it precedes
RECURSIVE InsertSorted(_, _, _)
InsertSorted(sorted, x, by) ==
    IF sorted = <<>> THEN <<x>>
    ELSE IF Precedes(x, Head(sorted), by) THEN <<x>> \o sorted
    ELSE <<Head(sorted)>> \o InsertSorted(Tail(sorted), x, by)

\* [...seq].sort(comparator): Array.prototype.sort is stable
RECURSIVE SortFrom(_, _, _, _)
SortFrom(seq, k, sorted, by) ==
    IF k > Len(seq) THEN sorted
    ELSE SortFrom(seq, k + 1, InsertSorted(sorted, seq[k], by), by)

Sort(seq, by) == SortFrom(seq, 1, <<>>, by)

\* the whole sequence
WholeSequence(seq, n) == seq

\* seq.slice(0, n)
Slice(seq, n) == SubSeq(seq, 1, IF Len(seq) < n THEN Len(seq) ELSE n)

\* every element kept
KeepAll(seq, alts) == seq

\* seq.filter(a => /alts/i.test(a.context))
RECURSIVE FilterByContext(_, _)
FilterByContext(seq, alts) ==
    IF seq = <<>> THEN <<>>
    ELSE (IF TestI(alts, Head(seq).context) THEN <<Head(seq)>> ELSE <<>>)
             \o FilterByContext(Tail(seq), alts)

\* Math.max(...seq.map(a => a.value), floor)
RECURSIVE MaxValue(_, _)
MaxValue(seq, floor) ==
    IF seq = <<>> THEN floor
    ELSE MaxValue(Tail(seq), RMax(floor, Head(seq).value))

---------------------------------------------------------------------------
(* validateTotalRelationship                                               *)

RelationshipWindow == 5

\* Number.POSITIVE_INFINITY
Infinity == [num |-> 1, den |-> 0]

\* The three nested loops, from subtotal s, tax option t and tip option p
\* onwards: [bestRatio, hasExactishMatch] after them.
RECURSIVE RelationshipLoop(_, _, _, _, _, _, _, _)
RelationshipLoop(total, subtotals, taxOptions, tipOptions, s, t, p, acc) ==
    IF s > Len(subtotals) THEN acc
    ELSE IF t > Len(taxOptions)
    THEN RelationshipLoop(total, subtotals, taxOptions, tipOptions, s + 1, 1, 1, acc)
    ELSE IF p > Len(tipOptions)
    THEN RelationshipLoop(total, subtotals, taxOptions, tipOptions, s, t + 1, 1, acc)
    ELSE
    LET expectedTotal == RAdd(RAdd(subtotals[s].value, taxOptions[t]), tipOptions[p])
        ratio == RDiv(RAbs(RSub(total, expectedTotal)), expectedTotal)
        next ==
            IF RLe(expectedTotal, Zero) THEN acc
            ELSE [bestRatio |->
                      IF acc.bestRatio = Infinity \/ RLt(ratio, acc.bestRatio)
                      THEN ratio ELSE acc.bestRatio,
                  hasExactishMatch |->
                      acc.hasExactishMatch \/ RLe(ratio, Dec(2, 2))]
    IN  RelationshipLoop(total, subtotals, taxOptions, tipOptions, s, t, p + 1, next)

RECURSIVE Values(_)
Values(seq) == IF seq = <<>> THEN <<>> ELSE <<Head(seq).value>> \o Values(Tail(seq))

\* The return statements after the loops; loop is [bestRatio,
\* hasExactishMatch] as the loops left them.
RelationshipResult(total, subtotalCandidates, loop) ==
    IF loop.bestRatio # Infinity /\ RLe(loop.bestRatio, Dec(2, 2))
    THEN [valid |-> TRUE, confidence |-> Dec(96, 2)]
    ELSE IF loop.bestRatio # Infinity /\ RLe(loop.bestRatio, Dec(5, 2))
    THEN [valid |-> TRUE, confidence |-> Dec(9, 1)]
    ELSE IF loop.bestRatio # Infinity /\ RLe(loop.bestRatio, Dec(1, 1))
    THEN [valid |-> TRUE, confidence |-> Dec(8, 1)]
    ELSE IF /\ ~loop.hasExactishMatch
            /\ RLe(RMul(subtotalCandidates[1].value, Dec(95, 2)), total)
            /\ RLe(total, RMul(subtotalCandidates[1].value, Dec(135, 2)))
    THEN [valid |-> TRUE, confidence |-> Dec(65, 2)]
    ELSE [valid |-> FALSE, confidence |-> Zero]

\* the sums without the options of no tax and no tip
RelationshipWithoutZero(total, subtotalCandidates, taxCandidates, tipCandidates) ==
    IF Len(subtotalCandidates) = 0 THEN [valid |-> FALSE, confidence |-> Zero]
    ELSE RelationshipResult(total, subtotalCandidates,
             RelationshipLoop(total, subtotalCandidates,
                              Values(taxCandidates), Values(tipCandidates), 1, 1, 1,
                              [bestRatio |-> Infinity, hasExactishMatch |-> FALSE]))

\* The function from the three candidate lists on
RelationshipOf(total, subtotalCandidates, taxCandidates, tipCandidates) ==
    IF Len(subtotalCandidates) = 0 THEN [valid |-> FALSE, confidence |-> Zero]
    ELSE RelationshipResult(total, subtotalCandidates,
             RelationshipLoop(total, subtotalCandidates,
                              <<Zero>> \o Values(taxCandidates),
                              <<Zero>> \o Values(tipCandidates), 1, 1, 1,
                              [bestRatio |-> Infinity, hasExactishMatch |-> FALSE]))

validateTotalRelationship(total, allAmounts) ==
    RelationshipOf(total,
        Slice(Sort(FilterByContext(allAmounts, SubtotalKeywords), "lineIndex"),
              RelationshipWindow),
        Slice(Sort(FilterByContext(allAmounts, TaxWordKeywords), "lineIndex"),
              RelationshipWindow),
        Slice(Sort(FilterByContext(allAmounts, TipWordKeywords), "lineIndex"),
              RelationshipWindow))

---------------------------------------------------------------------------
(* categorizeAmount                                                        *)

\* sortedAmounts.slice(0, 3).some(a => Math.abs(a.value - value) < 0.01)
AmongLargest(value, allAmounts) ==
    LET top == Slice(Sort(allAmounts, "value"), 3)
    IN  \E i \in 1..Len(top) : RLt(RAbs(RSub(top[i].value, value)), Dec(1, 2))

\* the rules with the payment rule after the keyword rules
CategorizePaymentLast(amount, allAmounts) ==
    LET context == toUpperCase(amount.context)
        value == amount.value
        maxValue == MaxValue(allAmounts, value)
        isLargeValue == RLe(RMul(maxValue, Dec(9, 1)), value)
    IN  IF TestI(StrongTotalKeywords, context) THEN "total"
        ELSE IF TestI(StandaloneTotal, context) /\ ~TestI(QualifiedTotal, context)
        THEN "total"
        ELSE IF TestI(SubtotalKeywords, context) THEN "subtotal"
        ELSE IF TestI(TaxKeywords, context) THEN "tax"
        ELSE IF TestI(TipKeywords, context) THEN "tip"
        ELSE IF TestI(PaymentKeywords, context) THEN "payment"
        ELSE IF isLargeValue \/ AmongLargest(value, allAmounts) THEN "unknown"
        ELSE "item"

\* the category field of the CategorizedAmount returned
categorizeAmount(amount, allAmounts) ==
    LET context == toUpperCase(amount.context)
        value == amount.value
        maxValue == MaxValue(allAmounts, value)
        isLargeValue == RLe(RMul(maxValue, Dec(9, 1)), value)
    IN  IF TestI(PaymentKeywords, context) THEN "payment"
        ELSE IF TestI(StrongTotalKeywords, context) THEN "total"
        ELSE IF TestI(StandaloneTotal, context) /\ ~TestI(QualifiedTotal, context)
        THEN "total"
        ELSE IF TestI(SubtotalKeywords, context) THEN "subtotal"
        ELSE IF TestI(TaxKeywords, context) THEN "tax"
        ELSE IF TestI(TipKeywords, context) THEN "tip"
        ELSE IF isLargeValue \/ AmongLargest(value, allAmounts) THEN "unknown"
        ELSE "item"

---------------------------------------------------------------------------
(* extractAmountsFromText                                                  *)

MinimumScoreTooLow == Dec(2, 1)
MINIMUM_ACCEPTABLE_SCORE == Dec(12, 1)
MIN_CONFIDENCE == Dec(2, 1)
ConfidenceCapOfOne == One
MAX_CONFIDENCE == Dec(98, 2)

\* score -= 2.8 of a payment line
PaymentPenaltyTooSmall == Dec(-8, 1)
PaymentPenalty == Dec(-28, 1)

\* lastIndex of every module-level RegExp object when the module is loaded
FreshLastIndex ==
    [anchor |-> 0, strong |-> 0, weak |-> 0, misleading |-> 0, payment |-> 0,
     amount |-> 0]

\* extractedAmounts.some(a => RELATIONSHIP_ANCHOR_PATTERN.test(a.context)),
\* from element k: [found, lastIndex]
RECURSIVE SomeAnchor(_, _, _)
SomeAnchor(amounts, k, li) ==
    IF k > Len(amounts) THEN [found |-> FALSE, lastIndex |-> li]
    ELSE LET t == RegExpTest(RELATIONSHIP_ANCHOR_PATTERN, li, amounts[k].context)
         IN  IF t.found THEN t ELSE SomeAnchor(amounts, k + 1, t.lastIndex)

\* no share of the way down for the only line
PositionZeroOnSingleLine(lineIndex, lineCount) ==
    IF lineCount > 1 THEN Rat(lineIndex, lineCount - 1) ELSE Zero

\* lines.length > 1 ? amount.lineIndex / (lines.length - 1) : 1
RelativeLinePosition(lineIndex, lineCount) ==
    IF lineCount > 1 THEN Rat(lineIndex, lineCount - 1) ELSE One

\* The score the callback of extractedAmounts.map adds up, from the results
\* of its tests (strong, weak, misleading, payment: [found, lastIndex])
ScoreOf(amount, lineCount, maxValue, hasRelationshipAnchors, inTopThreeValues, strong, weak, misleading, payment, category, validation) ==
    LET relativeLinePosition == RelativeLinePosition(amount.lineIndex, lineCount)
        s1 == IF strong.found THEN Dec(42, 1) ELSE Zero
        s2 == IF weak.found THEN Dec(18, 1) ELSE Zero
        s3 == IF misleading.found THEN Dec(-22, 1) ELSE Zero
        s4 == IF payment.found \/ category = "payment" THEN PaymentPenalty ELSE Zero
        s5 == CASE category = "total" -> Dec(14, 1)
                [] category = "subtotal" -> Dec(4, 1)
                [] category \in {"tax", "tip"} -> Dec(-8, 1)
                [] category = "item" -> Dec(-4, 1)
                [] OTHER -> Zero
        s6 == IF validation.valid THEN RMul(Dec(24, 1), validation.confidence)
              ELSE IF hasRelationshipAnchors THEN Dec(-6, 1)
              ELSE Zero
        s7 == RMin(Dec(12, 1), RDiv(amount.value, maxValue))
        s8 == IF inTopThreeValues THEN Dec(5, 1) ELSE Zero
        s9 == RMul(relativeLinePosition, Dec(16, 1))
        s10 == IF RLt(amount.value, One) THEN RNeg(One) ELSE Zero
    IN  RAdd(RAdd(RAdd(RAdd(RAdd(RAdd(RAdd(RAdd(RAdd(s1, s2), s3), s4),
             s5), s6), s7), s8), s9), s10)

\* What the callback returns, and the lastIndex values its tests leave
ScoredAmount(amount, score, validation, re, strong, weak, misleading, payment) ==
    [scored |-> [value |-> amount.value, context |-> amount.context,
                 lineIndex |-> amount.lineIndex, score |-> score,
                 validation |-> validation],
     re |-> [re EXCEPT !.strong = strong.lastIndex, !.weak = weak.lastIndex,
                       !.misleading = misleading.lastIndex,
                       !.payment = payment.lastIndex]]

\* The callback of extractedAmounts.map, its tests having run:
\* [scored, re]
ScoreWith(amount, lineCount, maxValue, hasRelationshipAnchors, inTopThreeValues, re, strong, weak, misleading, payment, category, validation) ==
    ScoredAmount(amount,
                 ScoreOf(amount, lineCount, maxValue, hasRelationshipAnchors,
                         inTopThreeValues, strong, weak, misleading, payment,
                         category, validation),
                 validation, re, strong, weak, misleading, payment)

\* The callback of extractedAmounts.map
ScoreAmount(amount, extractedAmounts, lineCount, maxValue, hasRelationshipAnchors, re) ==
    ScoreWith(amount, lineCount, maxValue, hasRelationshipAnchors,
              AmongLargest(amount.value, extractedAmounts), re,
              RegExpTest(STRONG_TOTAL_SIGNAL_PATTERN, re.strong,
                         toUpperCase(amount.context)),
              RegExpTest(WEAK_TOTAL_SIGNAL_PATTERN, re.weak,
                         toUpperCase(amount.context)),
              RegExpTest(MISLEADING_TOTAL_SIGNAL_PATTERN, re.misleading,
                         toUpperCase(amount.context)),
              RegExpTest(PAYMENT_SIGNAL_PATTERN, re.payment,
                         toUpperCase(amount.context)),
              categorizeAmount(amount, extractedAmounts),
              validateTotalRelationship(amount.value, extractedAmounts))

\* one more element mapped
Mapped(acc, one) == [scored |-> Append(acc.scored, one.scored), re |-> one.re]

\* extractedAmounts.map(...) from element k on, in order; acc is [scored, re],
\* the elements mapped so far and the lastIndex values left
RECURSIVE ScoreFrom(_, _, _, _, _, _)
ScoreFrom(amounts, k, lineCount, maxValue, hasRelationshipAnchors, acc) ==
    IF k > Len(amounts) THEN acc
    ELSE ScoreFrom(amounts, k + 1, lineCount, maxValue, hasRelationshipAnchors,
                   Mapped(acc, ScoreAmount(amounts[k], amounts, lineCount, maxValue,
                                           hasRelationshipAnchors, acc.re)))

\* .sort((a, b) => b.score - a.score || b.lineIndex - a.lineIndex)
SortScored(mapped) == [scored |-> Sort(mapped.scored, "score"), re |-> mapped.re]

\* the map once hasRelationshipAnchors is known; anchors is [found, lastIndex]
ScoreAll(extractedAmounts, lineCount, maxValue, anchors, re) ==
    ScoreFrom(extractedAmounts, 1, lineCount, maxValue, anchors.found,
              [scored |-> <<>>, re |-> [re EXCEPT !.anchor = anchors.lastIndex]])

\* scoredAmounts, sorted, of candidates that are not empty: [scored, re]
scoredAmountsOf(extractedAmounts, lineCount, re) ==
    SortScored(ScoreAll(extractedAmounts, lineCount,
                        MaxValue(Tail(extractedAmounts), Head(extractedAmounts).value),
                        SomeAnchor(extractedAmounts, 1, re.anchor), re))

\* Math.min(hi, Math.max(lo, x))
Clamp(x, lo, hi) == RMin(hi, RMax(lo, x))

\* a quarter of the score, without the two limits
QuarterOfScore(score) == RDiv(score, Rat(4, 1))

\* fallbackConfidence of a best candidate with this score
FallbackConfidence(score) == RMax(Dec(1, 1), RMin(Dec(35, 2), RDiv(score, Rat(4, 1))))

\* The function from const best = scoredAmounts[0] on; all is [scored, re]
SelectBest(text, extractedAmounts, all) ==
    LET scoredAmounts == all.scored
        best == scoredAmounts[1]
        fallbackConfidence == FallbackConfidence(best.score)
        scoreMargin ==
            IF Len(scoredAmounts) > 1 THEN RSub(best.score, scoredAmounts[2].score)
            ELSE best.score
        baseConfidence == Clamp(RDiv(best.score, Rat(8, 1)), MIN_CONFIDENCE, MAX_CONFIDENCE)
        marginFactor == RMin(One, RMax(Dec(45, 2), RDiv(scoreMargin, Rat(3, 1))))
        confidence == RMul(baseConfidence, marginFactor)
    IN  [data |->
             IF RLt(best.score, MINIMUM_ACCEPTABLE_SCORE)
             THEN [amount |-> Zero, confidence |-> fallbackConfidence,
                   allAmounts |-> extractedAmounts, rawText |-> text]
             ELSE [amount |-> best.value,
                   confidence |->
                       IF best.validation.valid
                       THEN RMin(MAX_CONFIDENCE, RAdd(confidence, Dec(1, 1)))
                       ELSE confidence,
                   allAmounts |-> extractedAmounts, rawText |-> text],
         re |-> all.re,
         locals |-> [extractedAmounts |-> extractedAmounts,
                     scoredAmounts |-> scoredAmounts]]

\* The function from the candidates found on
ExtractFrom(text, extractedAmounts, re) ==
    IF Len(extractedAmounts) = 0
    THEN [data |-> [amount |-> Zero, confidence |-> Zero, allAmounts |-> <<>>,
                    rawText |-> text],
          re |-> re,
          locals |-> [extractedAmounts |-> <<>>, scoredAmounts |-> <<>>]]
    ELSE SelectBest(text, extractedAmounts,
                    scoredAmountsOf(extractedAmounts, Len(Split(text, "\n")), re))

\* [data, re, locals]: the ExtractedData returned, the lastIndex values left
\* and the local arrays extractedAmounts and scoredAmounts
extractAmountsFromText(text, re) ==
    ExtractFrom(text, findAmountsInText(text, re.amount), re)

---------------------------------------------------------------------------
(* getNoAmountErrorMessage                                                 *)

\* the candidates looked at before the length of the raw text
MessageByCandidatesFirst(data) ==
    IF RLt(Zero, data.amount) THEN <<>>
    ELSE IF Len(data.allAmounts) = 0
    THEN (IF Len(data.rawText) < 10
          THEN <<"Couldn't read text from image. Try better lighting or hold phone steadier.">>
          ELSE <<"Found text but no amounts. Make sure the total is visible and try again.">>)
    ELSE IF Len(data.allAmounts) = 1
    THEN <<"Found $" \o toFixed2(data.allAmounts[1].value)
             \o " but unsure if it's the total. Click to use it anyway.">>
    ELSE <<"Found " \o NatToString(Len(data.allAmounts))
             \o " amounts. Click one below or try a clearer image.">>

\* <<>> is null, <<m>> the message m
getNoAmountErrorMessage(data) ==
    IF RLt(Zero, data.amount) THEN <<>>
    ELSE IF Len(data.rawText) < 10
    THEN <<"Couldn't read text from image. Try better lighting or hold phone steadier.">>
    ELSE IF Len(data.allAmounts) = 0
    THEN <<"Found text but no amounts. Make sure the total is visible and try again.">>
    ELSE IF Len(data.allAmounts) = 1
    THEN <<"Found $" \o toFixed2(data.allAmounts[1].value)
             \o " but unsure if it's the total. Click to use it anyway.">>
    ELSE <<"Found " \o NatToString(Len(data.allAmounts))
             \o " amounts. Click one below or try a clearer image.">>

---------------------------------------------------------------------------
(* The scan of one recognised text: extractAmountsFromText, then the       *)
(* caller's getNoAmountErrorMessage on its result                          *)

Init ==
    /\ NotScanning
    /\ pc = "ready"
    /\ args \in [text : Texts]
    /\ ret = <<>>
    /\ reLastIndex = FreshLastIndex
    /\ locals = <<>>

\* The call on text has returned r = [data, re, locals]: calls is followed
\* by its text and data, the RegExp objects and the locals are as it left them
Returned(calls, text, r) ==
    /\ ret' = Append(calls, [text |-> text, data |-> r.data])
    /\ reLastIndex' = r.re
    /\ locals' = r.locals

\* ret = <<[text, data]>>
ExtractAmountsFromText ==
    /\ pc = "ready"
    /\ Returned(<<>>, args.text, extractAmountsFromText(args.text, reLastIndex))
    /\ pc' = "extracted"
    /\ UNCHANGED <<args, tesseract, ui>>

\* ret = <<[text, data], message>>
GetNoAmountErrorMessage ==
    /\ pc = "extracted"
    /\ ret' = <<ret[1], getNoAmountErrorMessage(ret[1].data)>>
    /\ pc' = "reported"
    /\ UNCHANGED <<args, reLastIndex, locals, tesseract, ui>>

Next == ExtractAmountsFromText \/ GetNoAmountErrorMessage

Spec == Init /\ [][Next]_vars

---------------------------------------------------------------------------
(* Properties of one scan                                                  *)

\* what the call returned, and the candidates and the scores it worked with
Data == ret[1].data
Candidates == locals.extractedAmounts
Scored == locals.scoredAmounts

\* a candidate no other candidate outscores
IsTopScored(c) == \A i \in 1..Len(Scored) : RLe(Scored[i].score, c.score)

InAllAmounts(value) ==
    \E i \in 1..Len(Data.allAmounts) : Data.allAmounts[i].value = value

\* C1: the amount returned is 0 exactly when the text has no candidate or
\* the highest score is below 1.2; otherwise it is the value, greater than 0,
\* of a highest-scoring candidate, and that value is listed in allAmounts.
C1_AmountZeroIffNoneAccepted ==
    pc # "ready" =>
        /\ Data.amount = Zero <=>
               \/ Candidates = <<>>
               \/ \E i \in 1..Len(Scored) :
                      IsTopScored(Scored[i]) /\ RLt(Scored[i].score, Dec(12, 1))
        /\ Data.amount # Zero =>
               /\ RLt(Zero, Data.amount)
               /\ \E i \in 1..Len(Scored) :
                      IsTopScored(Scored[i]) /\ Data.amount = Scored[i].value
               /\ InAllAmounts(Data.amount)

\* C1: a text with candidates, none of which is accepted
C1_Witness ==
    /\ pc = "extracted"
    /\ Candidates # <<>>
    /\ Data.amount = Zero

\* lines of the shape SUBTOTAL, TAX, TIP, TOTAL, CASH, CHANGE
IsReceipt == args.text \in ReceiptTexts

\* C2: for a receipt SUBTOTAL s, TAX t, TIP p, TOTAL s+t+p, CASH c,
\* CHANGE c-total with c > total, the amount is the value of the TOTAL line,
\* the confidence exceeds 0.7, and the candidate selected is that of the
\* TOTAL line (the fourth), never that of the CASH or the CHANGE line.
C2_ReceiptTotalPreferred ==
    (pc # "ready" /\ IsReceipt) =>
        LET q == ReceiptOf[args.text]
        IN  /\ Data.amount = ReceiptTotal(q[1], q[2], q[3])
            /\ RLt(Dec(7, 1), Data.confidence)
            /\ \E i \in 1..Len(Scored) :
                   /\ IsTopScored(Scored[i])
                   /\ Scored[i].lineIndex = 3
                   /\ Scored[i].value = Data.amount
            /\ \A i \in 1..Len(Scored) :
                   Scored[i].lineIndex \in {4, 5} => ~IsTopScored(Scored[i])

\* C2: the receipt of the test, scanned
C2_Witness ==
    /\ pc = "extracted"
    /\ args.text = ReceiptText("45.00", "4.50", "2.00", "60.00")
    /\ Data.amount = Rat(103, 2)

\* TOTAL, SUM, AMOUNT, DUE, BAL, TO PAY, PLEASE PAY anywhere in a line
TotalLikeWords ==
    << <<"TOTAL">>, <<"SUM">>, <<"AMOUNT">>, <<"DUE">>, <<"BAL">>,
       <<"TO", "\\s*", "PAY">>, <<"PLEASE", "\\s*", "PAY">> >>
PaymentWords ==
    << <<"\\b", "CASH", "\\b">>, <<"\\b", "CHANGE", "\\b">>,
       <<"\\b", "TENDERED", "\\b">>, <<"\\b", "PAID", "\\b">>,
       <<"\\b", "APPROVAL", "\\b">>, <<"\\b", "AUTH", "\\b">>,
       <<"\\b", "CARD", "\\b">>, <<"\\b", "VISA", "\\b">>,
       <<"\\b", "MASTERCARD", "\\b">>, <<"\\b", "AMEX", "\\b">> >>
SubtotalWords ==
    << <<"SUB", "\\s*", "TOTAL">>, <<"SUB-TOTAL">>, <<"BEFORE", "\\s*", "TAX">> >>

\* every candidate's line has a payment keyword and none has a subtotal or
\* a total-like keyword
PaymentOnly ==
    \A i \in 1..Len(Candidates) :
        /\ TestI(PaymentWords, Candidates[i].context)
        /\ ~TestI(SubtotalWords, Candidates[i].context)
        /\ ~TestI(TotalLikeWords, Candidates[i].context)

RECURSIVE ContainsText(_, _)
ContainsText(s, part) ==
    IF Len(s) < Len(part) THEN FALSE
    ELSE SubSeq(s, 1, Len(part)) = part \/ ContainsText(Tail(s), part)

\* the message names how many amounts were found
NamesCount(message, n) ==
    /\ message # <<>>
    /\ ContainsText(message[1], "Found " \o NatToString(n) \o " amounts")

\* C3 as stated: a payment-only text yields amount 0, allAmounts lists every
\* candidate, and with two or more candidates the message names their number.
C3_PaymentOnlyAsStated ==
    (pc = "reported" /\ PaymentOnly) =>
        /\ Data.amount = Zero
        /\ Data.allAmounts = Candidates
        /\ Len(Candidates) >= 2 => NamesCount(ret[2], Len(Candidates))

\* C3 as amended: a payment-only text yields amount 0, allAmounts lists every
\* candidate, and with two or more candidates and a raw text of at least 10
\* characters the message names their number.
C3_PaymentOnlyRejected ==
    (pc = "reported" /\ PaymentOnly) =>
        /\ Data.amount = Zero
        /\ Data.allAmounts = Candidates
        /\ (Len(Candidates) >= 2 /\ Len(args.text) >= 10) =>
               NamesCount(ret[2], Len(Candidates))

\* C3: a payment-only text of at least 10 characters with two candidates
C3_Witness ==
    /\ pc = "reported"
    /\ PaymentOnly
    /\ Len(Candidates) = 2
    /\ Len(args.text) >= 10
    /\ NamesCount(ret[2], 2)

\* the values of the tokens of one line that are valid receipt amounts, in
\* match order
RECURSIVE ValidValues(_, _)
ValidValues(tokens, formatHint) ==
    IF tokens = <<>> THEN <<>>
    ELSE LET value == parseCurrencyString(Head(tokens), formatHint)
         IN  (IF value # NULL /\ RLt(Zero, value) /\ RLt(value, Rat(100000, 1))
              THEN <<value>> ELSE <<>>)
                 \o ValidValues(Tail(tokens), formatHint)

\* the values of the candidates of line n (zero-based), in the order of seq
RECURSIVE ValuesOfLine(_, _)
ValuesOfLine(seq, n) ==
    IF seq = <<>> THEN <<>>
    ELSE (IF Head(seq).lineIndex = n THEN <<Head(seq).value>> ELSE <<>>)
             \o ValuesOfLine(Tail(seq), n)

\* seq is what the lines of text yield, in discovery order: line indexes
\* never decrease, every candidate carries its own line, normalised, and the
\* candidates of a line are its valid tokens from left to right, equal values
\* included
InDiscoveryOrder(seq, text) ==
    LET lines == Split(text, "\n")
        formatHint == detectNumberFormat(text)
    IN  /\ \A i \in 1..Len(seq) :
               /\ seq[i].lineIndex \in 0..(Len(lines) - 1)
               /\ seq[i].context = Trim(CollapseWhitespace(lines[seq[i].lineIndex + 1]))
               /\ i < Len(seq) => seq[i].lineIndex <= seq[i + 1].lineIndex
        /\ \A n \in 1..Len(lines) :
               ValuesOfLine(seq, n - 1) = ValidValues(matchAll(lines[n], 0), formatHint)

\* C5: the candidates findAmountsInText found are in discovery order, each
\* with the index and the normalised text of its own line, nothing sorted or
\* dropped as a duplicate; allAmounts is that sequence, whether the amount
\* was accepted or rejected.
C5_AllAmountsInDiscoveryOrder ==
    pc # "ready" =>
        /\ InDiscoveryOrder(Candidates, args.text)
        /\ Data.allAmounts = Candidates

\* C5: an accepted text whose best candidate is not the first found, with a
\* line that holds the same value twice
C5_Witness ==
    /\ pc = "extracted"
    /\ RLt(Zero, Data.amount)
    /\ Len(Candidates) >= 3
    /\ Scored[1] # Candidates[1]
    /\ \E i \in 1..(Len(Candidates) - 1) :
           /\ Candidates[i].value = Candidates[i + 1].value
           /\ Candidates[i].lineIndex = Candidates[i + 1].lineIndex

\* C5: a rejected text with candidates on more than one line
C5_WitnessRejected ==
    /\ pc = "extracted"
    /\ Data.amount = Zero
    /\ \E i \in 1..Len(Candidates) : Candidates[i].lineIndex > 0

\* the message says what, whatever the case of its letters
Says(message, what) ==
    /\ Len(message) = 1
    /\ ContainsText(toUpperCase(message[1]), toUpperCase(what))

\* C13: the message is null exactly when the amount is greater than 0; for
\* amount 0 it is one message, the first that applies of: raw text shorter
\* than 10 characters, "couldn't read text"; no candidate, "found text but
\* no amounts"; one candidate, a message naming its value; otherwise a
\* message naming the number of candidates.
C13_MessageByPriority ==
    pc = "reported" =>
        /\ ret[2] = <<>> <=> RLt(Zero, Data.amount)
        /\ Data.amount = Zero =>
               IF Len(Data.rawText) < 10 THEN Says(ret[2], "couldn't read text")
               ELSE IF Len(Data.allAmounts) = 0
               THEN Says(ret[2], "found text but no amounts")
               ELSE IF Len(Data.allAmounts) = 1
               THEN /\ Says(ret[2], "$" \o toFixed2(Data.allAmounts[1].value))
                    /\ ~Says(ret[2], "amounts")
               ELSE Says(ret[2], "found " \o NatToString(Len(Data.allAmounts))
                                    \o " amounts")

\* C13: a raw text of 8 characters with two candidates, none accepted
C13_Witness ==
    /\ pc = "reported"
    /\ Data.amount = Zero
    /\ Len(Data.rawText) < 10
    /\ Len(Data.allAmounts) = 2
    /\ Says(ret[2], "couldn't read text")

\* C13: the other messages, and null
C13_WitnessNoAmounts ==
    /\ pc = "reported"
    /\ Len(Data.rawText) >= 10
    /\ Says(ret[2], "found text but no amounts")
C13_WitnessOneAmount ==
    /\ pc = "reported"
    /\ Data.rawText = "CASH 60.00"
    /\ ret[2] = <<"Found $60.00 but unsure if it's the total. Click to use it anyway.">>
C13_WitnessCount ==
    /\ pc = "reported"
    /\ Len(Data.allAmounts) = 3
    /\ Says(ret[2], "found 3 amounts")
C13_WitnessNull ==
    /\ pc = "reported"
    /\ Len(Data.rawText) < 10
    /\ RLt(Zero, Data.amount)
    /\ ret[2] = <<>>

\* x kept within lo and hi
Within(x, lo, hi) == IF RLt(x, lo) THEN lo ELSE IF RLt(hi, x) THEN hi ELSE x

\* the highest score of the candidates other than the one at position i
RunnerUpScore(i) ==
    LET others == {Scored[j].score : j \in (1..Len(Scored)) \ {i}}
    IN  CHOOSE s \in others : \A o \in others : RLe(o, s)

\* the confidence of the accepted candidate at position i of Scored: its
\* score over 8 within 0.2 and 0.98, times its margin over 3 within 0.45
\* and 1, the margin being its lead over the runner-up or, alone, its score;
\* plus 0.1 when its validation is valid, and no more than 0.98
AcceptedConfidence(i) ==
    LET margin == IF Len(Scored) = 1 THEN Scored[i].score
                  ELSE RSub(Scored[i].score, RunnerUpScore(i))
        product == RMul(Within(RDiv(Scored[i].score, Rat(8, 1)), Dec(2, 1), Dec(98, 2)),
                        Within(RDiv(margin, Rat(3, 1)), Dec(45, 2), One))
    IN  IF Scored[i].validation.valid
        THEN Within(RAdd(product, Dec(1, 1)), Zero, Dec(98, 2))
        ELSE product

\* C14: the confidence is within 0 and 1; it is 0 when there is no
\* candidate; for an accepted amount it is clamp(score/8, 0.2, 0.98) times
\* clamp(margin/3, 0.45, 1) of the best candidate, plus 0.1 when that
\* candidate's validation is valid, and never more than 0.98.
C14_ConfidenceFormula ==
    pc # "ready" =>
        /\ RLe(Zero, Data.confidence) /\ RLe(Data.confidence, One)
        /\ Candidates = <<>> => Data.confidence = Zero
        /\ RLt(Zero, Data.amount) =>
               /\ RLe(Data.confidence, Dec(98, 2))
               /\ \E i \in 1..Len(Scored) :
                      /\ IsTopScored(Scored[i])
                      /\ Scored[i].value = Data.amount
                      /\ Data.confidence = AcceptedConfidence(i)

\* C14: a validated winner whose confidence the cap holds at 0.98
C14_Witness ==
    /\ pc = "extracted"
    /\ RLt(Zero, Data.amount)
    /\ Len(Scored) >= 2
    /\ Scored[1].validation.valid
    /\ RLt(Dec(98, 2), RAdd(Dec(1, 1),
            RMul(Within(RDiv(Scored[1].score, Rat(8, 1)), Dec(2, 1), Dec(98, 2)),
                 Within(RDiv(RSub(Scored[1].score, Scored[2].score), Rat(3, 1)),
                        Dec(45, 2), One))))
    /\ Data.confidence = Dec(98, 2)

\* C14: a winner without a valid validation, its margin under 1.35
C14_WitnessSmallMargin ==
    /\ pc = "extracted"
    /\ RLt(Zero, Data.amount)
    /\ Len(Scored) >= 2
    /\ ~Scored[1].validation.valid
    /\ RLt(RSub(Scored[1].score, Scored[2].score), Dec(135, 2))
    /\ Data.confidence =
           RMul(Within(RDiv(Scored[1].score, Rat(8, 1)), Dec(2, 1), Dec(98, 2)), Dec(45, 2))

\* C14: no candidate, confidence 0
C14_WitnessNoCandidate ==
    /\ pc = "extracted"
    /\ Candidates = <<>>
    /\ Data.confidence = Zero

\* the candidate at position i of Scored is selected by the rule: no
\* candidate scores higher, and none with the same score is on a later line
IsSelectedByRule(i) ==
    /\ IsTopScored(Scored[i])
    /\ \A j \in 1..Len(Scored) :
           IsTopScored(Scored[j]) => Scored[j].lineIndex <= Scored[i].lineIndex

\* C15: the candidate selected has the highest score; among candidates with
\* the same score the one with the highest lineIndex is selected. Its value
\* is the amount returned when it is accepted.
C15_HighestScoreThenLatestLine ==
    pc # "ready" /\ Scored # <<>> =>
        /\ IsSelectedByRule(1)
        /\ RLt(Zero, Data.amount) =>
               \E i \in 1..Len(Scored) :
                   IsSelectedByRule(i) /\ Scored[i].value = Data.amount

\* C15: two candidates of different values tie for the highest score on
\* different lines and the one on the later line is returned
C15_Witness ==
    /\ pc = "extracted"
    /\ RLt(Zero, Data.amount)
    /\ \E i, j \in 1..Len(Scored) :
           /\ IsTopScored(Scored[i]) /\ IsTopScored(Scored[j])
           /\ Scored[i].lineIndex < Scored[j].lineIndex
           /\ Scored[i].value # Scored[j].value
           /\ Data.amount = Scored[j].value


\* the text has candidates and the best score is below 1.2
IsRejected == Candidates # <<>> /\ RLt(Scored[1].score, MINIMUM_ACCEPTABLE_SCORE)

\* C26: when candidates exist but the best score is below 1.2, the amount is
\* 0 and the confidence is the best score divided by 4, raised to 0.1 when
\* below and lowered to 0.35 when above: never less than 0.1 and never more
\* than 0.35, negative scores included.
C26_RejectionConfidence ==
    (pc # "ready" /\ IsRejected) =>
        /\ Data.amount = Zero
        /\ Data.confidence = Clamp(RDiv(Scored[1].score, Rat(4, 1)), Dec(1, 1), Dec(35, 2))
        /\ RLe(Dec(1, 1), Data.confidence)
        /\ RLe(Data.confidence, Dec(35, 2))

\* C26: a best score below 0, whose confidence is 0.1
C26_Witness ==
    /\ pc = "extracted"
    /\ IsRejected
    /\ RLt(Scored[1].score, Zero)
    /\ Data.confidence = Dec(1, 1)

\* C26: a rejected best score whose quarter is above 0.1
C26_WitnessQuarter ==
    /\ pc = "extracted"
    /\ IsRejected
    /\ RLt(Dec(1, 1), Data.confidence)
    /\ Data.confidence = RDiv(Scored[1].score, Rat(4, 1))
---------------------------------------------------------------------------
(* One call of parseCurrencyString                                         *)

\* the longest grouped string put to the parser, in characters
MaxRawLen == 8

DigitGroups == {"1", "56", "234", "1234"}
RawSeparators == {",", ".", "'", " "}
RawPrefixes == {"", "$", "-"}

\* digit groups joined by separators, at most n groups
RECURSIVE GroupedDigits(_)
GroupedDigits(n) ==
    IF n = 1 THEN DigitGroups
    ELSE LET shorter == GroupedDigits(n - 1)
         IN  shorter \cup {g \o x \o d : g \in {h \in shorter : Len(h) + 2 <= MaxRawLen},
                                         x \in RawSeparators, d \in DigitGroups}

\* strings that are not digit groups around single separators
OddStrings ==
    {"", "abc", "1234.", ".5", "1,,5", "12-3", "$ 1,234.56 USD",
     "   ", "\t", "$", "-", "--5", "-1.5", ",", ".", "'", " 7 ", "$-", "1.-2"}

RawStrings ==
    {p \o g : p \in RawPrefixes, g \in {h \in GroupedDigits(3) : Len(h) <= MaxRawLen}}
        \cup OddStrings

InitParse ==
    /\ NotScanning
    /\ pc = "ready"
    /\ args \in [valueStr : RawStrings, formatHint : NumberFormats]
    /\ ret = <<>>
    /\ reLastIndex = FreshLastIndex
    /\ locals = <<>>

\* ret = <<value>>, NULL for null
ParseCurrencyString ==
    /\ pc = "ready"
    /\ ret' = <<parseCurrencyString(args.valueStr, args.formatHint)>>
    /\ pc' = "done"
    /\ UNCHANGED <<args, reLastIndex, locals, tesseract, ui>>

NextParse == ParseCurrencyString

SpecParse == InitParse /\ [][NextParse]_vars

\* the greater of two positions
Later(i, j) == IF i > j THEN i ELSE j

\* digit groups around single separators, after an optional currency symbol
IsGrouped(s) ==
    /\ s # ""
    /\ \A i \in 1..Len(s) : Ch(s, i) \in Digits \cup RawSeparators \cup {"$"}
    /\ \A i \in 1..Len(s) : Ch(s, i) = "$" => i = 1
    /\ Ch(s, 1) \in Digits \cup {"$"}
    /\ Ch(s, Len(s)) \in Digits
    /\ \A i \in 1..(Len(s) - 1) :
           Ch(s, i) \notin Digits => Ch(s, i + 1) \in Digits

\* The number a grouped string stands for: the last ',' or '.' is the decimal
\* separator when both kinds appear or when at most two digits follow it;
\* otherwise there is none; the digits left of the decimal separator are the
\* integer part, those right of it the fraction.
GroupedValue(s) ==
    LET lastComma == LastIndexOf(s, ",")
        lastDot == LastIndexOf(s, ".")
        last == Later(lastComma, lastDot)
        before == KeepChars(SubSeq(s, 1, last - 1), Digits)
        after == KeepChars(SubSeq(s, last + 1, Len(s)), Digits)
        isDecimal == last > 0 /\ ((lastComma > 0 /\ lastDot > 0) \/ Len(after) <= 2)
    IN  IF isDecimal
        THEN Rat(DigitsToInt(before) * Pow10(Len(after)) + DigitsToInt(after),
                 Pow10(Len(after)))
        ELSE Rat(DigitsToInt(KeepChars(s, Digits)), 1)

\* C10: for digit groups around ',', '.', apostrophes and spaces, the last
\* ',' or '.' is the decimal separator when both kinds appear or when at
\* most two digits follow the last one; every other separator is dropped as
\* grouping. So "1234.56", "1'234.56", "1 234,56", "1,234,56" give 1234.56.
C10_DecimalSeparatorResolved ==
    pc = "done" =>
        /\ IsGrouped(args.valueStr) => ret[1] = GroupedValue(args.valueStr)
        /\ args.valueStr \in {"1234.56", "1'234.56", "1 234,56", "1,234,56"} =>
               ret[1] = Rat(123456, 100)

\* C10: both kinds of separator, the comma last
C10_Witness ==
    /\ pc = "done"
    /\ args.valueStr = "1.234,56"
    /\ ret[1] = Rat(123456, 100)

\* C10: one kind of separator, twice, two digits after the last
C10_WitnessOneKind ==
    /\ pc = "done"
    /\ args.valueStr = "1,234,56"
    /\ ret[1] = Rat(123456, 100)

\* C10: one kind of separator with three digits after it: grouping
C10_WitnessGrouping ==
    /\ pc = "done"
    /\ args.valueStr = "1.234"
    /\ ret[1] = Rat(1234, 1)

\* only one of ',' and '.' occurs, and it occurs more than once
OneKindRepeated(s) ==
    \/ CountOf(s, ",") > 1 /\ CountOf(s, ".") = 0
    \/ CountOf(s, ".") > 1 /\ CountOf(s, ",") = 0

\* the digits of s, every separator stripped, read as an integer
StrippedInteger(s) == Rat(DigitsToInt(KeepChars(s, Digits)), 1)

\* the number of characters after the last ',' or '.'
TrailingLength(s) == Len(s) - Later(LastIndexOf(s, ","), LastIndexOf(s, "."))

\* the digits of s with a decimal point before the last n of them
WithFraction(s, n) == Rat(DigitsToInt(KeepChars(s, Digits)), Pow10(n))

\* C27: when only one kind of separator, ',' or '.', occurs and it occurs
\* more than once, every occurrence is stripped and the result has no
\* fractional part.
C27_RepeatedIsThousands ==
    (pc = "done" /\ IsGrouped(args.valueStr) /\ OneKindRepeated(args.valueStr)) =>
        ret[1] = StrippedInteger(args.valueStr)

\* C27: when only one kind of separator, ',' or '.', occurs and it occurs
\* more than once, every occurrence is stripped and the result has no
\* fractional part if three or more digits follow the last occurrence; if
\* one or two digits follow it, the last occurrence is the decimal
\* separator and only the earlier ones are stripped.
C27_RepeatedByTrailingDigits ==
    (pc = "done" /\ IsGrouped(args.valueStr) /\ OneKindRepeated(args.valueStr)) =>
        ret[1] = IF TrailingLength(args.valueStr) >= 3
                 THEN StrippedInteger(args.valueStr)
                 ELSE WithFraction(args.valueStr, TrailingLength(args.valueStr))

\* C27: a repeated comma with two digits after the last one
C27_Witness ==
    /\ pc = "done"
    /\ args.valueStr = "1,234,56"
    /\ OneKindRepeated(args.valueStr)
    /\ ret[1] = Rat(123456, 100)

\* C27: a repeated dot with three digits after the last one
C27_WitnessThousands ==
    /\ pc = "done"
    /\ args.valueStr = "1.56.234"
    /\ OneKindRepeated(args.valueStr)
    /\ ret[1] = Rat(156234, 1)

\* the number of digits after the last ',' or '.'
TrailingDigits(s) ==
    Len(KeepChars(SubSeq(s, Later(LastIndexOf(s, ","), LastIndexOf(s, ".")) + 1, Len(s)), Digits))

\* exactly one ',' or '.' in s, and exactly three digits after it
IsSingleBeforeThree(s) ==
    /\ CountOf(s, ",") + CountOf(s, ".") = 1
    /\ TrailingDigits(s) = 3

\* C28: the result of parseCurrencyString is the same under every format
\* hint, 'us', 'european' and 'mixed', the default of a call without one;
\* a single separator before exactly three digits is a thousands separator
\* under every hint, so that "1.234" gives 1234.
C28_HintIndependent ==
    pc = "done" =>
        /\ \A hint \in NumberFormats :
               parseCurrencyString(args.valueStr, hint) = ret[1]
        /\ (IsGrouped(args.valueStr) /\ IsSingleBeforeThree(args.valueStr)) =>
               ret[1] = StrippedInteger(args.valueStr)
        /\ args.valueStr = "1.234" => ret[1] = Rat(1234, 1)

\* C28: a dot before three digits under the hint 'us'
C28_Witness ==
    /\ pc = "done"
    /\ args = [valueStr |-> "1.234", formatHint |-> "us"]
    /\ ret[1] = Rat(1234, 1)

\* C28: a comma before three digits under the hint 'european'
C28_WitnessEuropean ==
    /\ pc = "done"
    /\ args = [valueStr |-> "$56,234", formatHint |-> "european"]
    /\ ret[1] = Rat(56234, 1)

HasDigit(s) == \E i \in 1..Len(s) : Ch(s, i) \in Digits

\* C11: for every string, the empty one, blank ones, symbols alone and
\* strings with misplaced separators or minus signs included, the call
\* returns null or a finite number, and null when the string has no digit.
C11_NullOrFinite ==
    pc = "done" =>
        /\ ret[1] = NULL \/ (ret[1].num \in Int /\ ret[1].den \in Nat \ {0})
        /\ ~HasDigit(args.valueStr) => ret[1] = NULL

\* C11: strings without a digit give null
C11_Witness ==
    /\ pc = "done"
    /\ args.valueStr \in {"", "   ", "$", "-", ",", "$-"}
    /\ ret[1] = NULL

\* C11: misplaced minus signs and separators give a number or null
C11_WitnessMisplaced ==
    /\ pc = "done"
    /\ \/ args.valueStr = "12-3" /\ ret[1] = Rat(123, 1)
       \/ args.valueStr = "--5" /\ ret[1] = Rat(-5, 1)
       \/ args.valueStr = "1,,5" /\ ret[1] # NULL
       \/ args.valueStr = "-1.5" /\ ret[1] = NULL

---------------------------------------------------------------------------
(* One call of findAmountsInText                                           *)

\* the longest text put to the finder, in lines
MaxFindLines == 2

RECURSIVE FindTexts(_)
FindTexts(n) ==
    IF n = 1 THEN FindMenu
    ELSE LET shorter == FindTexts(n - 1)
         IN  shorter \cup {t \o "\n" \o l : t \in shorter, l \in FindMenu}

InitFind ==
    /\ NotScanning
    /\ pc = "ready"
    /\ args \in [text : FindTexts(MaxFindLines)]
    /\ ret = <<>>
    /\ reLastIndex = FreshLastIndex
    /\ locals = <<>>

\* ret = <<amounts>>
FindAmountsInText ==
    /\ pc = "ready"
    /\ ret' = <<findAmountsInText(args.text, reLastIndex.amount)>>
    /\ pc' = "done"
    /\ UNCHANGED <<args, reLastIndex, locals, tesseract, ui>>

NextFind == FindAmountsInText

SpecFind == InitFind /\ [][NextFind]_vars

\* the tokens of every line of text, in order
RECURSIVE TokensOfLines(_)
TokensOfLines(lines) ==
    IF lines = <<>> THEN <<>>
    ELSE matchAll(Head(lines), 0) \o TokensOfLines(Tail(lines))

\* a finite number greater than 0 and less than 100000
IsReceiptAmount(value) ==
    /\ value.den > 0
    /\ value.num > 0
    /\ value.num < 100000 * value.den

\* C4: every candidate findAmountsInText returns has a finite value greater
\* than 0 and less than 100000; a matched token whose value is null or
\* outside that range is left out, and the call still returns its sequence.
C4_OnlyValidAmounts ==
    pc = "done" =>
        LET tokens == TokensOfLines(Split(args.text, "\n"))
            formatHint == detectNumberFormat(args.text)
        IN  /\ \A i \in 1..Len(ret[1]) : IsReceiptAmount(ret[1][i].value)
            /\ Len(ret[1]) =
                   Cardinality({k \in 1..Len(tokens) :
                       LET value == parseCurrencyString(tokens[k], formatHint)
                       IN  value # NULL /\ IsReceiptAmount(value)})

\* C4: a text with tokens 0 and 100000 left out beside one that is kept
C4_Witness ==
    /\ pc = "done"
    /\ args.text = "0.00 5\n100000"
    /\ Len(ret[1]) = 1
    /\ ret[1][1].value = Rat(5, 1)

\* C4: the largest amount kept
C4_WitnessLargest ==
    /\ pc = "done"
    /\ args.text = "99999.99"
    /\ Len(ret[1]) = 1

---------------------------------------------------------------------------
(* One call of categorizeAmount                                            *)

\* the longest text whose candidates are put to the categoriser, in lines
MaxCategorizeLines == 2

RECURSIVE CategorizeTexts(_)
CategorizeTexts(n) ==
    IF n = 1 THEN CategorizeMenu
    ELSE LET shorter == CategorizeTexts(n - 1)
         IN  shorter \cup {t \o "\n" \o l : t \in shorter, l \in CategorizeMenu}

\* the candidates of the texts, as findAmountsInText returns them
CategorizeLists == {findAmountsInText(t, 0) : t \in CategorizeTexts(MaxCategorizeLines)}

InitCategorize ==
    /\ NotScanning
    /\ pc = "ready"
    /\ \E allAmounts \in CategorizeLists :
           \E i \in 1..Len(allAmounts) :
               args = [amount |-> allAmounts[i], allAmounts |-> allAmounts]
    /\ ret = <<>>
    /\ reLastIndex = FreshLastIndex
    /\ locals = <<>>

\* ret = <<category>>
CategorizeAmount ==
    /\ pc = "ready"
    /\ ret' = <<categorizeAmount(args.amount, args.allAmounts)>>
    /\ pc' = "done"
    /\ UNCHANGED <<args, reLastIndex, locals, tesseract, ui>>

NextCategorize == CategorizeAmount

SpecCategorize == InitCategorize /\ [][NextCategorize]_vars

PaymentWordList ==
    {"CASH", "CHANGE", "TENDERED", "PAID", "APPROVAL", "AUTH", "CARD", "VISA",
     "MASTERCARD", "AMEX"}

\* word stands in s at position i with no letter, digit or underscore on
\* either side
IsWholeWordAt(s, i, word) ==
    /\ i + Len(word) - 1 <= Len(s)
    /\ SubSeq(s, i, i + Len(word) - 1) = word
    /\ i > 1 => Ch(s, i - 1) \notin WordChars
    /\ i + Len(word) <= Len(s) => Ch(s, i + Len(word)) \notin WordChars

\* the context holds a payment keyword as a whole word, in any case
HasPaymentWord(context) ==
    LET upper == toUpperCase(context)
    IN  \E word \in PaymentWordList :
            \E i \in 1..Len(upper) : IsWholeWordAt(upper, i, word)

\* C7: a candidate whose context holds a payment keyword as a whole word is
\* categorised payment, whichever other keywords the context holds and
\* however large its value is among the candidates.
C7_PaymentFirst ==
    (pc = "done" /\ HasPaymentWord(args.amount.context)) => ret[1] = "payment"

\* C7: a payment line that also holds a strong total keyword, its value the
\* largest of the candidates
C7_Witness ==
    /\ pc = "done"
    /\ args.amount.context = "GRAND TOTAL PAID 50.00"
    /\ \A i \in 1..Len(args.allAmounts) :
           RLe(args.allAmounts[i].value, args.amount.value)
    /\ Len(args.allAmounts) = 2
    /\ ret[1] = "payment"

\* C7: payment lines that hold a subtotal, a tax or a tip keyword
C7_WitnessOtherRules ==
    /\ pc = "done"
    /\ args.amount.context \in {"SUBTOTAL CARD 45.00", "TAX PAID 4.50", "TIP cash 2.00"}
    /\ ret[1] = "payment"

\* C7: a payment keyword inside a longer word is not one
C7_WitnessNotWholeWord ==
    /\ pc = "done"
    /\ args.amount.context = "CASHIER TOTAL 51.50"
    /\ ~HasPaymentWord(args.amount.context)
    /\ ret[1] = "total"

StrongWordPairs ==
    {<<"GRAND", "TOTAL">>, <<"TOTAL", "DUE">>, <<"AMOUNT", "DUE">>, <<"BALANCE", "DUE">>,
     <<"PLEASE", "PAY">>, <<"TO", "PAY">>}

\* the context, its whitespace single spaces, holds a strong total keyword
HasStrongWord(context) ==
    LET upper == toUpperCase(context)
    IN  \/ \E w \in StrongWordPairs :
               ContainsText(upper, w[1] \o w[2]) \/ ContainsText(upper, w[1] \o " " \o w[2])
        \/ ContainsText(upper, "FINAL AMOUNT")

\* TOTAL after the start or a space and before a colon or a space
HasStandaloneTotal(context) ==
    LET upper == toUpperCase(context)
    IN  \E i \in 1..Len(upper) :
            /\ i + 5 <= Len(upper)
            /\ SubSeq(upper, i, i + 4) = "TOTAL"
            /\ i > 1 => Ch(upper, i - 1) \in Whitespace
            /\ Ch(upper, i + 5) \in Whitespace \cup {":"}

QualifierList ==
    {"SUB", "ITEM", "SAVINGS", "SAVING", "DISCOUNT", "MERCHANDISE", "FOOD", "ITEMS"}

HasQualifier(context) ==
    \E q \in QualifierList : ContainsText(toUpperCase(context), q)

HasQualifierBeforeTotal(context) ==
    LET upper == toUpperCase(context)
    IN  \E q \in QualifierList :
            ContainsText(upper, q \o "TOTAL") \/ ContainsText(upper, q \o " TOTAL")

\* C23 as stated: a context with the word TOTAL and one of the qualifiers
\* SUB, ITEM, SAVINGS, DISCOUNT, MERCHANDISE, FOOD, ITEMS anywhere in the
\* line, and no payment or strong total keyword, is never categorised total.
C23_QualifierAnywhere ==
    (/\ pc = "done"
     /\ ~HasPaymentWord(args.amount.context) /\ ~HasStrongWord(args.amount.context)
     /\ HasStandaloneTotal(args.amount.context)
     /\ HasQualifier(args.amount.context)) => ret[1] # "total"

\* C23: without a payment or strong total keyword, a context is categorised
\* total exactly when it holds the standalone word TOTAL and none of the
\* qualifiers stands right before a TOTAL, with or without a space between.
C23_QualifierBeforeTotal ==
    (/\ pc = "done"
     /\ ~HasPaymentWord(args.amount.context) /\ ~HasStrongWord(args.amount.context)) =>
        (ret[1] = "total" <=>
            /\ HasStandaloneTotal(args.amount.context)
            /\ ~HasQualifierBeforeTotal(args.amount.context))

\* C23: a qualifier right before TOTAL keeps the line from being a total
C23_Witness ==
    /\ pc = "done"
    /\ args.amount.context = "ITEMS TOTAL 12.00"
    /\ HasStandaloneTotal(args.amount.context)
    /\ ret[1] # "total"

\* C23: a qualifier elsewhere in the line does not
C23_WitnessElsewhere ==
    /\ pc = "done"
    /\ args.amount.context = "TOTAL AFTER DISCOUNT 40.00"
    /\ HasQualifier(args.amount.context)
    /\ ret[1] = "total"

---------------------------------------------------------------------------
(* One call of validateTotalRelationship                                   *)

\* the longest list of lines put together freely from ValidateMenu
MaxValidateLines == 4

\* sequences of at most n lines of menu
LineSeqs(menu, n) == UNION {[1..k -> menu] : k \in 0..n}

\* one line more of a kind than the validation looks at, after a subtotal
\* line where the kind is not the subtotal
RunsOf(first, menu) ==
    {first \o run : run \in [1..(RelationshipWindow + 1) -> menu]}

ValidateLines ==
    LineSeqs(ValidateMenu, MaxValidateLines)
        \cup RunsOf(<<>>, ValidateSubtotalRun)
        \cup RunsOf(<<"SUBTOTAL 40.00">>, ValidateTaxRun)
        \cup RunsOf(<<"SUBTOTAL 40.00">>, ValidateTipRun)

\* the candidates of the lines, as findAmountsInText collects them
ValidateLists == {AmountsFromLine(lines, 1, "us", 0) : lines \in ValidateLines}

\* proposed totals: sums of the menu's values, the tier and range bounds
\* around them, and values far from every sum
ValidateTotals ==
    {Dec(200, 2), Dec(1300, 2), Dec(4200, 2), Dec(4284, 2), Dec(4400, 2),
     Dec(5400, 2), Dec(5401, 2), Dec(8000, 2)}

InitValidate ==
    /\ NotScanning
    /\ pc = "ready"
    /\ args \in [total : ValidateTotals, allAmounts : ValidateLists]
    /\ ret = <<>>
    /\ reLastIndex = FreshLastIndex
    /\ locals = <<>>

\* ret = <<[valid, confidence]>>
ValidateTotalRelationship ==
    /\ pc = "ready"
    /\ ret' = <<validateTotalRelationship(args.total, args.allAmounts)>>
    /\ pc' = "done"
    /\ UNCHANGED <<args, reLastIndex, locals, tesseract, ui>>

NextValidate == ValidateTotalRelationship

SpecValidate == InitValidate /\ [][NextValidate]_vars

\* the positions in seq of the candidates whose context holds a keyword
Holding(seq, alts) == {i \in 1..Len(seq) : TestI(alts, seq[i].context)}

\* the 5 of them with the highest line indexes
Latest(seq, among) ==
    {i \in among :
        Cardinality({j \in among : seq[j].lineIndex > seq[i].lineIndex}) < 5}

\* every sum of one of the 5 latest subtotals, of 0 or one of the 5 latest
\* taxes, and of 0 or one of the 5 latest tips
Combinations(seq) ==
    LET subtotals == Latest(seq, Holding(seq, SubtotalKeywords))
        taxes == Latest(seq, Holding(seq, TaxWordKeywords))
        tips == Latest(seq, Holding(seq, TipWordKeywords))
    IN  {RAdd(RAdd(seq[s].value, t), p) :
            s \in subtotals,
            t \in {Zero} \cup {seq[i].value : i \in taxes},
            p \in {Zero} \cup {seq[i].value : i \in tips}}

RelativeError(total, expected) == RDiv(RAbs(RSub(total, expected)), expected)

\* the least relative error of total over the combinations
MinimumError(total, seq) ==
    LET errors == {RelativeError(total, e) : e \in Combinations(seq)}
    IN  CHOOSE least \in errors : \A e \in errors : RLe(least, e)

\* the value of the subtotal candidate with the highest line index
LatestSubtotal(seq) ==
    LET subtotals == Holding(seq, SubtotalKeywords)
    IN  seq[CHOOSE i \in subtotals :
                \A j \in subtotals : seq[j].lineIndex <= seq[i].lineIndex].value

\* what the tiers and the range give for total
Tiered(total, seq) ==
    LET error == MinimumError(total, seq)
        latest == LatestSubtotal(seq)
    IN  IF RLe(error, Dec(2, 2)) THEN [valid |-> TRUE, confidence |-> Dec(96, 2)]
        ELSE IF RLe(error, Dec(5, 2)) THEN [valid |-> TRUE, confidence |-> Dec(90, 2)]
        ELSE IF RLe(error, Dec(10, 2)) THEN [valid |-> TRUE, confidence |-> Dec(80, 2)]
        ELSE IF RLe(RMul(Dec(95, 2), latest), total) /\ RLe(total, RMul(Dec(135, 2), latest))
        THEN [valid |-> TRUE, confidence |-> Dec(65, 2)]
        ELSE [valid |-> FALSE, confidence |-> Zero]

HasSubtotal == Holding(args.allAmounts, SubtotalKeywords) # {}

\* C8: with a subtotal candidate, the result follows the least relative
\* error of the total over the combinations of the 5 latest subtotals with 0
\* or one of the 5 latest taxes and 0 or one of the 5 latest tips: 0.96 up to
\* 2%, 0.90 up to 5%, 0.80 up to 10%; beyond that 0.65 when the total is
\* within 0.95 to 1.35 times the latest subtotal, and invalid with 0
\* otherwise. A total equal to a combination gets at least 0.9.
C8_TiersOfLeastError ==
    (pc = "done" /\ HasSubtotal) =>
        /\ ret[1] = Tiered(args.total, args.allAmounts)
        /\ args.total \in Combinations(args.allAmounts) =>
               ret[1].valid /\ RLe(Dec(9, 1), ret[1].confidence)

\* C8: a total that only a subtotal outside the 5 latest would explain
C8_Witness ==
    /\ pc = "done"
    /\ Cardinality(Holding(args.allAmounts, SubtotalKeywords)) = 6
    /\ args.allAmounts[1].value = Rat(40, 1)
    /\ \A i \in 2..6 : args.allAmounts[i].value = Rat(10, 1)
    /\ args.total = Rat(42, 1)
    /\ ret[1] = [valid |-> FALSE, confidence |-> Zero]

\* C8: each tier and the range are met
C8_WitnessExact ==
    pc = "done" /\ HasSubtotal /\ ret[1].confidence = Dec(96, 2)
C8_WitnessFivePercent ==
    pc = "done" /\ HasSubtotal /\ ret[1].confidence = Dec(90, 2)
C8_WitnessTenPercent ==
    pc = "done" /\ HasSubtotal /\ ret[1].confidence = Dec(80, 2)
C8_WitnessRange ==
    pc = "done" /\ HasSubtotal /\ ret[1].confidence = Dec(65, 2)

\* C9: without a candidate whose context holds a subtotal keyword the result
\* is invalid with confidence 0, for every total and whatever tax and tip
\* candidates there are.
C9_NoSubtotalNoValidation ==
    (pc = "done" /\ ~HasSubtotal) => ret[1] = [valid |-> FALSE, confidence |-> Zero]

\* C9: tax and tip candidates that add up to the total, and no subtotal
C9_Witness ==
    /\ pc = "done"
    /\ ~HasSubtotal
    /\ Holding(args.allAmounts, TaxWordKeywords) # {}
    /\ Holding(args.allAmounts, TipWordKeywords) # {}
    /\ args.total = Rat(2, 1)
    /\ ret[1] = [valid |-> FALSE, confidence |-> Zero]

---------------------------------------------------------------------------
(* A session: calls of extractAmountsFromText one after another in one     *)
(* module instance, each finding the RegExp objects as the last left them  *)

\* the longest session, in calls
MaxCalls == 3

\* ret is the sequence of the calls made: the text and the data returned
InitSession ==
    /\ NotScanning
    /\ pc = "idle"
    /\ args = <<>>
    /\ ret = <<>>
    /\ reLastIndex = FreshLastIndex
    /\ locals = <<>>

Call(text) ==
    /\ pc = "idle"
    /\ Len(ret) < MaxCalls
    /\ Returned(ret, text, extractAmountsFromText(text, reLastIndex))
    /\ args' = [text |-> text]
    /\ UNCHANGED <<pc, tesseract, ui>>

NextSession == \E text \in SessionTexts : Call(text)

SpecSession == InitSession /\ [][NextSession]_vars

\* C6: in a session, two calls on the same text return the same amount,
\* confidence, allAmounts and rawText, whatever calls came before or between
\* them, and after every call each module-level RegExp object has the
\* lastIndex it had when the module was loaded.
C6_CallsIndependent ==
    pc = "idle" =>
        /\ \A i, j \in 1..Len(ret) :
               ret[i].text = ret[j].text =>
                   /\ ret[i].data.amount = ret[j].data.amount
                   /\ ret[i].data.confidence = ret[j].data.confidence
                   /\ ret[i].data.allAmounts = ret[j].data.allAmounts
                   /\ ret[i].data.rawText = ret[j].data.rawText
        /\ reLastIndex = FreshLastIndex

\* C6: the same text scanned before and after another text, accepted both
\* times
C6_Witness ==
    /\ pc = "idle"
    /\ Len(ret) = 3
    /\ ret[1].text = ret[3].text
    /\ ret[2].text # ret[1].text
    /\ ret[2].data.allAmounts # <<>>
    /\ RLt(Zero, ret[1].data.amount)
    /\ ret[3].data = ret[1].data

---------------------------------------------------------------------------
(* One call of detectNumberFormat                                          *)

\* the most tokens in a text put to the detector
MaxDetectTokens == 5

\* texts of at most n lines, each a label and a token
RECURSIVE DetectTexts(_)
DetectTexts(n) ==
    IF n = 0 THEN {""}
    ELSE LET shorter == DetectTexts(n - 1)
         IN  shorter \cup {(IF t = "" THEN "" ELSE t \o "\n") \o "x " \o token :
                              t \in shorter, token \in DetectTokens}

InitDetect ==
    /\ NotScanning
    /\ pc = "ready"
    /\ args \in [text : DetectTexts(MaxDetectTokens) \cup {EuropeanReceipt, UsReceipt}]
    /\ ret = <<>>
    /\ reLastIndex = FreshLastIndex
    /\ locals = <<>>

\* ret = <<format>>
DetectNumberFormat ==
    /\ pc = "ready"
    /\ ret' = <<detectNumberFormat(args.text)>>
    /\ pc' = "done"
    /\ UNCHANGED <<args, reLastIndex, locals, tesseract, ui>>

NextDetect == DetectNumberFormat

SpecDetect == InitDetect /\ [][NextDetect]_vars

\* The convention a token follows: the last ',' or '.' is its decimal
\* separator when both appear or when at most two digits follow it, and a
\* grouping separator otherwise; a decimal comma or a grouping dot is
\* European, a decimal dot or a grouping comma is US.
TokenLeaning(token) ==
    LET lastComma == LastIndexOf(token, ",")
        lastDot == LastIndexOf(token, ".")
        last == Later(lastComma, lastDot)
        isDecimal == (lastComma > 0 /\ lastDot > 0) \/ Len(token) - last <= 2
    IN  IF last = 0 THEN "none"
        ELSE IF (Ch(token, last) = ",") = isDecimal THEN "european"
        ELSE "us"

\* a text of labelled lines
IsLabelled(text) == text \notin {EuropeanReceipt, UsReceipt}

\* the tokens of a text of labelled lines
LabelledTokens(text) ==
    IF text = "" THEN <<>>
    ELSE LET lines == Split(text, "\n")
         IN  [i \in 1..Len(lines) |-> SubSeq(lines[i], 3, Len(lines[i]))]

CountLeaning(tokens, leaning) ==
    Cardinality({i \in 1..Len(tokens) : TokenLeaning(tokens[i]) = leaning})

\* what the counts of a text's tokens give
FormatOfTokens(tokens) ==
    IF Len(tokens) < 3 THEN "us"
    ELSE IF 10 * CountLeaning(tokens, "european") > 15 * CountLeaning(tokens, "us")
    THEN "european"
    ELSE IF 10 * CountLeaning(tokens, "us") > 15 * CountLeaning(tokens, "european")
    THEN "us"
    ELSE "mixed"

\* C12: with fewer than 3 tokens the format is us; otherwise european when
\* the European-leaning tokens are more than 1.5 times the US-leaning ones,
\* us when the US-leaning are more than 1.5 times the European-leaning, and
\* mixed in every other case. The European receipt of the tests gives
\* european, its US equivalent us.
C12_FormatByCounts ==
    pc = "done" =>
        /\ IsLabelled(args.text) =>
               ret[1] = FormatOfTokens(LabelledTokens(args.text))
        /\ args.text = EuropeanReceipt => ret[1] = "european"
        /\ args.text = UsReceipt => ret[1] = "us"

\* C12: three European-leaning tokens beside two US-leaning ones, exactly
\* 1.5 times as many, give mixed
C12_Witness ==
    /\ pc = "done"
    /\ IsLabelled(args.text)
    /\ CountLeaning(LabelledTokens(args.text), "european") = 3
    /\ CountLeaning(LabelledTokens(args.text), "us") = 2
    /\ ret[1] = "mixed"

\* C12: two European-leaning tokens alone give us
C12_WitnessFewTokens ==
    /\ pc = "done"
    /\ args.text = "x 12,50\nx 1.234"
    /\ ret[1] = "us"

\* C12: two European-leaning tokens beside one US-leaning give european
C12_WitnessEuropean ==
    /\ pc = "done"
    /\ args.text = "x 12,50\nx 12.50\nx 1.234"
    /\ ret[1] = "european"

\* C12: the receipts of the tests
C12_WitnessReceipts ==
    /\ pc = "done"
    /\ \/ args.text = EuropeanReceipt /\ ret[1] = "european"
       \/ args.text = UsReceipt /\ ret[1] = "us"



\* the candidates findAmountsInText would return had the format detected
\* been hint
CandidatesUnder(text, hint) == AmountsFromLine(Split(text, "\n"), 1, hint, 0)

\* C28: findAmountsInText returns the same candidates whatever
\* detectNumberFormat returns for the text.
C28_SameCandidates ==
    pc = "done" =>
        \A hint \in NumberFormats :
            CandidatesUnder(args.text, hint) = findAmountsInText(args.text, 0)

\* C28: a text detected as european with a candidate from a grouped token
C28_WitnessCandidates ==
    /\ pc = "done"
    /\ ret = <<"european">>
    /\ \E i \in 1..Len(findAmountsInText(args.text, 0)) :
           findAmountsInText(args.text, 0)[i].value = Rat(1234, 1)
---------------------------------------------------------------------------
(* scanReceiptImage: up to three OCR passes over one image                 *)
(*                                                                         *)
(* A step is what runs between two awaits. args.onProgress is the list of  *)
(* the values the caller's onProgress has been called with and             *)
(* args.shouldContinue what the caller's predicate answers now;            *)
(* args.context2d says whether the canvas gives a 2d context. An optional  *)
(* ExtractedData is <<>> for null and <<data>> otherwise. ret is the       *)
(* promise returned: pending, resolved with a value, or rejected.          *)

OcrModes == <<"normal", "high-contrast", "low-contrast">>

\* What the engine may read off the image in a pass: nothing, a total read
\* with confidence 0.98, two amounts tied (0.80 accepted with confidence
\* 0.09), a payment line (no amount accepted, confidence 0.1), a total
\* alone (confidence 0.7875, one candidate), a total between a tax and a
\* subtotal line (confidence 0.7327, three candidates), words without an
\* amount
OcrTexts ==
    {"", "TOTAL DUE 51.50", "2.00\n0.80", "CASH 60.00",
     "TOTAL 51.50", "TAX 4.50\nTOTAL 51.50\nSUBTOTAL 45.00", "Thank you"}

\* logger messages of the engine: status and progress in 0..1
MessageStatuses == {"loading tesseract core", "recognizing text"}
MessageProgress == {Zero, Dec(304, 3), Dec(996, 3)}
\* the most logger messages of one scan
MaxMessages == 2

Pending == [state |-> "pending", value |-> <<>>]
Resolved(value) == [state |-> "resolved", value |-> value]
Rejected == [state |-> "rejected", value |-> <<>>]

\* Math.round of a number that is not negative
MathRound(x) == (2 * x.num + x.den) \div (2 * x.den)

qualityScore(data) ==
    RAdd(RAdd(IF RLt(Zero, data.amount) THEN Dec(15, 1) ELSE Zero, data.confidence),
         RMin(Dec(25, 2), RMul(Rat(Len(data.allAmounts), 1), Dec(3, 2))))

\* [...results].sort((a, b) => qualityScore(b) - qualityScore(a)): results
\* from position k on put into sorted, each after those of no lower quality
RECURSIVE SortByQuality(_, _, _)
SortByQuality(results, k, sorted) ==
    IF k > Len(results) THEN sorted
    ELSE LET before == {i \in 1..Len(sorted) :
                           RLe(qualityScore(results[k]), qualityScore(sorted[i]))}
             n == Cardinality(before)
         IN  SortByQuality(results, k + 1,
                 SubSeq(sorted, 1, n) \o <<results[k]>> \o SubSeq(sorted, n + 1, Len(sorted)))

\* the first result, whatever its quality
SelectFirstResult(results) == IF Len(results) = 0 THEN <<>> ELSE <<results[1]>>

selectBestResult(results) ==
    IF Len(results) = 0 THEN <<>> ELSE <<SortByQuality(results, 1, <<>>)[1]>>

\* every result calls for another pass
AlwaysAnotherPass(result) == TRUE

\* another pass unless the confidence is 0.99 or more
ShouldTryBelowNinetyNine(result) ==
    \/ result = <<>>
    \/ result[1].amount = Zero
    \/ RLt(result[1].confidence, Dec(99, 2))

\* !result || result.amount === 0 || result.confidence < 0.75
ShouldTryAnotherPass(result) ==
    \/ result = <<>>
    \/ result[1].amount = Zero
    \/ RLt(result[1].confidence, Dec(75, 2))

\* the state of the scan as one record, for the code that runs in a step
Frame == [pc |-> pc, args |-> args, ret |-> ret, locals |-> locals, tesseract |-> tesseract]

Becomes(f) ==
    /\ pc' = f.pc
    /\ args' = f.args
    /\ ret' = f.ret
    /\ locals' = f.locals
    /\ tesseract' = f.tesseract

\* the value handed on as it comes
ReportRawProgress(f, nextProgress) ==
    IF ~f.args.shouldContinue THEN f
    ELSE [f EXCEPT !.locals.latestProgress = nextProgress,
                   !.args.onProgress = Append(@, nextProgress)]

reportProgress(f, nextProgress) ==
    IF ~f.args.shouldContinue THEN f
    ELSE [f EXCEPT !.locals.latestProgress =
                       IF @ > nextProgress THEN @ ELSE nextProgress,
                   !.args.onProgress =
                       Append(@, IF f.locals.latestProgress > nextProgress
                                 THEN f.locals.latestProgress ELSE nextProgress)]

\* the logger of runOcrForMode on a message of the engine
Logged(f, status, progress) ==
    IF status # "recognizing text" THEN f
    ELSE IF ~f.args.shouldContinue THEN f
    ELSE reportProgress(f, MathRound(RMul(progress, Rat(100, 1))))

\* runOcrForMode up to its await: null at once when cancelled, a throw of
\* preprocessImage without a 2d context, else Tesseract.recognize is called
runOcrForMode(f, mode) ==
    IF ~f.args.shouldContinue
    THEN [f EXCEPT !.pc = "returned", !.locals.mode = mode, !.locals.passResult = <<>>]
    ELSE IF ~f.args.context2d
    THEN [f EXCEPT !.pc = "done", !.ret = Rejected]
    ELSE [f EXCEPT !.pc = "recognizing", !.locals.mode = mode,
                   !.tesseract.calls = Append(@, mode),
                   !.tesseract.running = @ + 1]

\* the text extracted whether or not the scan goes on
PassResultUnchecked(shouldContinue, extracted) == <<extracted.data>>

\* runOcrForMode after its await: null when cancelled, else the data
\* extracted from the text
PassResult(shouldContinue, extracted) ==
    IF ~shouldContinue THEN <<>> ELSE <<extracted.data>>

\* results.push(result) if (result)
Collected(results, result) == IF result = <<>> THEN results ELSE Append(results, result[1])

\* the end of scanReceiptImage
Finish(f) ==
    [f EXCEPT !.pc = "done",
              !.ret = Resolved(IF ~f.args.shouldContinue THEN <<>>
                               ELSE selectBestResult(f.locals.results))]

\* scanReceiptImage from bestSoFar on
TryLowContrast(f) ==
    IF ShouldTryAnotherPass(selectBestResult(f.locals.results))
    THEN runOcrForMode(reportProgress(f, 75), "low-contrast")
    ELSE Finish(f)

\* scanReceiptImage from shouldTryHighContrast on
TryHighContrast(f) ==
    IF ShouldTryAnotherPass(f.locals.normalResult)
    THEN runOcrForMode(reportProgress(f, 50), "high-contrast")
    ELSE TryLowContrast(f)

\* scanReceiptImage after each of its awaits
AfterNormal(f) ==
    IF f.locals.passResult = <<>> \/ ~f.args.shouldContinue
    THEN [f EXCEPT !.pc = "done", !.ret = Resolved(<<>>)]
    ELSE TryHighContrast([f EXCEPT !.locals.normalResult = f.locals.passResult,
                                   !.locals.results = Collected(@, f.locals.passResult)])

AfterHighContrast(f) ==
    TryLowContrast([f EXCEPT !.locals.highContrastResult = f.locals.passResult,
                             !.locals.results = Collected(@, f.locals.passResult)])

AfterLowContrast(f) ==
    Finish([f EXCEPT !.locals.lowContrastResult = f.locals.passResult,
                     !.locals.results = Collected(@, f.locals.passResult)])

ScanLocals ==
    [latestProgress |-> 0, results |-> <<>>, mode |-> "normal", passResult |-> <<>>,
     normalResult |-> <<>>, highContrastResult |-> <<>>, lowContrastResult |-> <<>>]

InitScan ==
    /\ pc = "ready"
    /\ args \in [onProgress : {<<>>}, shouldContinue : BOOLEAN, context2d : BOOLEAN]
    /\ ret = Pending
    /\ reLastIndex = FreshLastIndex
    /\ locals = ScanLocals
    /\ tesseract = [calls |-> <<>>, running |-> 0, messages |-> 0, failed |-> FALSE]
    /\ ui = <<>>

\* the call, up to the first await
ScanReceiptImage ==
    /\ pc = "ready"
    /\ Becomes(runOcrForMode(Frame, "normal"))
    /\ UNCHANGED <<reLastIndex, ui>>

\* the engine sends a message to the logger
Logger(status, progress) ==
    /\ pc = "recognizing"
    /\ tesseract.messages < MaxMessages
    /\ Becomes(Logged([Frame EXCEPT !.tesseract.messages = @ + 1], status, progress))
    /\ UNCHANGED <<reLastIndex, ui>>

\* Tesseract.recognize resolves with a text and runOcrForMode returns
Recognized(text, extracted) ==
    /\ Becomes([Frame EXCEPT !.pc = "returned",
                             !.tesseract.running = @ - 1,
                             !.locals.passResult = PassResult(args.shouldContinue, extracted)])
    /\ reLastIndex' = IF args.shouldContinue THEN extracted.re ELSE reLastIndex
    /\ UNCHANGED ui

RecognizeResolves(text) ==
    /\ pc = "recognizing"
    /\ Recognized(text, extractAmountsFromText(text, reLastIndex))

\* Tesseract.recognize rejects: runOcrForMode and scanReceiptImage reject
RecognizeRejects ==
    /\ pc = "recognizing"
    /\ Becomes([Frame EXCEPT !.pc = "done", !.ret = Rejected,
                             !.tesseract.running = @ - 1, !.tesseract.failed = TRUE])
    /\ UNCHANGED <<reLastIndex, ui>>

AfterNormalPass ==
    /\ pc = "returned" /\ locals.mode = "normal"
    /\ Becomes(AfterNormal(Frame))
    /\ UNCHANGED <<reLastIndex, ui>>

AfterHighContrastPass ==
    /\ pc = "returned" /\ locals.mode = "high-contrast"
    /\ Becomes(AfterHighContrast(Frame))
    /\ UNCHANGED <<reLastIndex, ui>>

AfterLowContrastPass ==
    /\ pc = "returned" /\ locals.mode = "low-contrast"
    /\ Becomes(AfterLowContrast(Frame))
    /\ UNCHANGED <<reLastIndex, ui>>

\* the caller's predicate starts to answer false, and keeps to it
Cancel ==
    /\ pc # "done"
    /\ args.shouldContinue
    /\ args' = [args EXCEPT !.shouldContinue = FALSE]
    /\ UNCHANGED <<pc, ret, reLastIndex, locals, tesseract, ui>>

NextScan ==
    \/ ScanReceiptImage
    \/ \E status \in MessageStatuses, progress \in MessageProgress : Logger(status, progress)
    \/ \E text \in OcrTexts : RecognizeResolves(text)
    \/ RecognizeRejects
    \/ AfterNormalPass
    \/ AfterHighContrastPass
    \/ AfterLowContrastPass
    \/ Cancel

SpecScan == InitScan /\ [][NextScan]_vars

\* the result of a pass calls for another: amount 0 or confidence below 0.75
IsPoor(data) == data.amount = Zero \/ RLt(data.confidence, Dec(75, 2))

\* the results collected before the low-contrast pass
ResultsBeforeLowContrast ==
    IF locals.lowContrastResult = <<>> THEN locals.results
    ELSE SubSeq(locals.results, 1, Len(locals.results) - 1)

\* the best of results: of the highest quality, the earliest of those
IsBestOf(results, i) ==
    /\ \A j \in 1..Len(results) : RLe(qualityScore(results[j]), qualityScore(results[i]))
    /\ \A j \in 1..(i - 1) : qualityScore(results[j]) # qualityScore(results[i])

\* C16: the engine is called at most three times, one call at a time, in the
\* order normal, high-contrast, low-contrast; high-contrast only after a
\* normal result with amount 0 or confidence below 0.75, low-contrast only
\* when the best result collected so far has amount 0 or confidence below
\* 0.75; after a normal result with an amount and confidence of 0.75 or more
\* there is exactly one call.
C16_PassesInOrder ==
    /\ tesseract.running <= 1
    /\ tesseract.running = 1 <=> pc = "recognizing"
    /\ Len(tesseract.calls) <= 3
    /\ \A i \in 1..Len(tesseract.calls) : tesseract.calls[i] = OcrModes[i]
    /\ Len(tesseract.calls) >= 2 =>
           locals.normalResult # <<>> /\ IsPoor(locals.normalResult[1])
    /\ Len(tesseract.calls) = 3 =>
           \A i \in 1..Len(ResultsBeforeLowContrast) :
               IsBestOf(ResultsBeforeLowContrast, i) => IsPoor(ResultsBeforeLowContrast[i])
    /\ locals.normalResult # <<>> /\ ~IsPoor(locals.normalResult[1]) =>
           tesseract.calls = <<"normal">>

\* C16: a scan that ended after the normal pass alone, with its result
C16_Witness ==
    /\ pc = "done"
    /\ tesseract.calls = <<"normal">>
    /\ locals.normalResult # <<>> /\ ~IsPoor(locals.normalResult[1])
    /\ ret = Resolved(locals.normalResult)

\* C16: three passes, the first two results poor
C16_WitnessThreePasses ==
    /\ pc = "done"
    /\ tesseract.calls = OcrModes
    /\ Len(locals.results) = 3
    /\ ret.state = "resolved" /\ ret.value # <<>>

\* C16: a good high-contrast result after a poor normal one: two passes
C16_WitnessTwoPasses ==
    /\ pc = "done"
    /\ tesseract.calls = <<"normal", "high-contrast">>
    /\ args.shouldContinue
    /\ ret = Resolved(locals.highContrastResult)
    /\ ret.value # <<>>

\* a step of a cancelled scan: no call of the engine is started, a
\* recognition that returns has its result dropped unscored and onProgress
\* is not called
CancelledStep ==
    ~args.shouldContinue =>
        /\ tesseract'.calls = tesseract.calls
        /\ pc = "recognizing" /\ pc' = "returned" =>
               locals'.passResult = <<>> /\ reLastIndex' = reLastIndex
        /\ args'.onProgress = args.onProgress

\* a call of the engine is started only when the predicate says to go on,
\* the result of a returning recognition is kept only when it says so, and
\* nothing but a result that was kept is added to results
CheckedStep ==
    /\ tesseract'.calls # tesseract.calls => args.shouldContinue
    /\ pc = "recognizing" /\ pc' = "returned" =>
           (locals'.passResult # <<>> <=> args.shouldContinue)
    /\ locals'.results # locals.results =>
           /\ locals.passResult # <<>>
           /\ locals'.results = Append(locals.results, locals.passResult[1])

\* C17 as stated: every pass checks the predicate before it starts and
\* right after the engine returns; once the scan is cancelled no call of
\* the engine is started, the result in flight is dropped, onProgress is
\* not called again and the promise resolves to null.
C17_CancelledResolvesNull ==
    [][/\ CheckedStep
       /\ CancelledStep
       /\ pc' = "done" /\ ~args'.shouldContinue => ret' = Resolved(<<>>)]_vars

\* C17: as above, but the promise of a cancelled scan resolves to null
\* unless the recognition in flight fails, and then it rejects; it never
\* resolves to a result.
C17_CancelledScanStops ==
    [][/\ CheckedStep
       /\ CancelledStep
       /\ pc' = "done" /\ ~args'.shouldContinue =>
              ret' = IF tesseract'.failed THEN Rejected ELSE Resolved(<<>>)]_vars

\* C17: cancelled during the high-contrast pass: the normal result was
\* collected, the result in flight was not, and the scan resolved to null
C17_Witness ==
    /\ pc = "done"
    /\ ~args.shouldContinue
    /\ tesseract.calls = <<"normal", "high-contrast">>
    /\ Len(locals.results) = 1
    /\ locals.highContrastResult = <<>>
    /\ args.onProgress # <<>>
    /\ ret = Resolved(<<>>)

\* C17: cancelled while the engine runs, and the engine fails
C17_WitnessRejected ==
    /\ pc = "done"
    /\ ~args.shouldContinue
    /\ tesseract.failed
    /\ ret = Rejected

\* C18: the values onProgress is called with never decrease, so a raw
\* value is handed on only when it is at least the last value reported;
\* latestProgress is the last value reported.
C18_ProgressNeverDecreases ==
    /\ \A i \in 1..(Len(args.onProgress) - 1) : args.onProgress[i] <= args.onProgress[i + 1]
    /\ args.onProgress # <<>> =>
           locals.latestProgress = args.onProgress[Len(args.onProgress)]

\* C18: a later pass reports less than was reported before and the caller
\* is handed the earlier value again
C18_Witness ==
    /\ Len(tesseract.calls) >= 2
    /\ Len(args.onProgress) >= 3
    /\ args.onProgress[1] = 100
    /\ args.onProgress[2] = 100
    /\ args.onProgress[3] = 100
    /\ tesseract.messages = 2

\* C21: once a pass has produced a result with amount > 0 and confidence of
\* 0.75 or more, no further call of the engine is made: the high-contrast
\* pass is called only after a poor normal result, the low-contrast pass
\* only when every result collected before it is poor.
C21_NoPassAfterGoodResult ==
    /\ Len(tesseract.calls) >= 2 =>
           locals.normalResult # <<>> /\ IsPoor(locals.normalResult[1])
    /\ Len(tesseract.calls) = 3 =>
           \A i \in 1..Len(ResultsBeforeLowContrast) : IsPoor(ResultsBeforeLowContrast[i])

\* the best of results, by quality, has an amount and confidence of 0.75
\* or more
BestIsGood(results) ==
    /\ results # <<>>
    /\ \A i \in 1..Len(results) : IsBestOf(results, i) => ~IsPoor(results[i])

\* the results collected and the one a pass has just returned
ResultsProduced ==
    IF pc = "returned" THEN Collected(locals.results, locals.passResult) ELSE locals.results

\* C21: once the result of the highest quality among those produced has
\* amount > 0 and confidence of 0.75 or more, no further call of the engine
\* is made.
C21_NoPassAfterGoodBest ==
    [][BestIsGood(ResultsProduced) => tesseract'.calls = tesseract.calls]_vars

\* C21: the scan ends after a good high-contrast result that is the best
C21_Witness ==
    /\ pc = "done"
    /\ args.shouldContinue
    /\ tesseract.calls = <<"normal", "high-contrast">>
    /\ Len(locals.results) = 2
    /\ BestIsGood(locals.results)
    /\ IsPoor(locals.results[1])

\* C21: the low-contrast pass is started although the high-contrast pass
\* gave a good result: the poor normal result has the higher quality
C21_PassAfterGoodResult ==
    /\ tesseract.calls = OcrModes
    /\ locals.highContrastResult # <<>>
    /\ ~IsPoor(locals.highContrastResult[1])
    /\ IsPoor(locals.normalResult[1])
    /\ RLt(qualityScore(locals.highContrastResult[1]), qualityScore(locals.normalResult[1]))

\* quality as stated: 1.5 for an amount, plus the confidence, plus 0.03 for
\* each candidate up to 0.25
StatedQuality(data) ==
    LET forAmount == IF data.amount = Zero THEN Zero ELSE Dec(15, 1)
        forCandidates == RMul(Dec(3, 2), Rat(Len(data.allAmounts), 1))
    IN  RAdd(RAdd(forAmount, data.confidence),
             IF RLt(Dec(25, 2), forCandidates) THEN Dec(25, 2) ELSE forCandidates)

\* C22: a scan that is not cancelled resolves to the collected result of
\* the highest quality, the earliest of those of that quality; a result
\* with amount 0 is returned only when no collected result has an amount.
C22_BestQualityReturned ==
    pc = "done" /\ args.shouldContinue /\ ret.state = "resolved" =>
        /\ ret.value # <<>>
        /\ \E i \in 1..Len(locals.results) :
               /\ ret.value[1] = locals.results[i]
               /\ \A j \in 1..Len(locals.results) :
                      RLe(StatedQuality(locals.results[j]), StatedQuality(locals.results[i]))
               /\ \A j \in 1..(i - 1) :
                      RLt(StatedQuality(locals.results[j]), StatedQuality(locals.results[i]))
        /\ ret.value[1].amount = Zero =>
               \A j \in 1..Len(locals.results) : locals.results[j].amount = Zero

\* C22: three results, the second of the highest quality, is returned
C22_Witness ==
    /\ pc = "done" /\ args.shouldContinue
    /\ Len(locals.results) = 3
    /\ ret = Resolved(<<locals.results[2]>>)
    /\ RLt(StatedQuality(locals.results[1]), StatedQuality(locals.results[2]))
    /\ RLt(StatedQuality(locals.results[3]), StatedQuality(locals.results[2]))

\* C22: two different results of the same quality: the earlier is returned
C22_WitnessTie ==
    /\ pc = "done" /\ args.shouldContinue
    /\ Len(locals.results) = 3
    /\ locals.results[1] # locals.results[2]
    /\ StatedQuality(locals.results[1]) = StatedQuality(locals.results[2])
    /\ RLe(StatedQuality(locals.results[3]), StatedQuality(locals.results[1]))
    /\ ret = Resolved(<<locals.results[1]>>)

\* C22: no pass found an amount and a result with amount 0 is returned
C22_WitnessNoAmount ==
    /\ pc = "done" /\ args.shouldContinue
    /\ ret.state = "resolved" /\ ret.value # <<>>
    /\ ret.value[1].amount = Zero
    /\ ret.value[1].allAmounts # <<>>

---------------------------------------------------------------------------
(* ReceiptScanner: processImage calls of one mounted component             *)
(*                                                                         *)
(* ui holds the five pieces of React state, requestIdRef.current and       *)
(* whether the component is mounted. Each call r of processImage has its   *)
(* position pc[r], its file args[r], its locals and its promise ret[r]. A  *)
(* step is what runs between two awaits or in one event handler. The scan  *)
(* awaited by a call is taken by what it does to the caller: calls of      *)
(* onProgress with latestProgress while shouldContinue() holds, then a     *)
(* promise resolved with the data of a text read (null when                *)
(* shouldContinue() fails) or rejected.                                    *)

\* the most processImage calls of one component
MaxRequests == 2
Requests == 1..MaxRequests

Files == {"a.png", "b.jpg"}
ProgressValues == {30, 100}
\* what a scan may read: a total, accepted, and a payment line, rejected
\* with a message
ScannedTexts == {"TOTAL DUE 51.50", "CASH 60.00"}

GenericMessage == "Could not process image. Try a different photo."

\* every request counts as the latest
AlwaysLatest(requestId, current) == TRUE

\* requestId === requestIdRef.current
IsLatest(requestId, current) == requestId = current

\* the catch block
Catch(u, requestId) ==
    IF IsLatest(requestId, u.requestIdRef) THEN [u EXCEPT !.error = <<GenericMessage>>]
    ELSE u

\* isProcessing left as it is
FinallyNothing(u, requestId) == u

\* the finally block
Finally(u, requestId) ==
    IF IsLatest(requestId, u.requestIdRef) THEN [u EXCEPT !.isProcessing = FALSE]
    ELSE u

\* setExtractedData(result), setProgress(100), setError(errorMessage) if any
Shown(u, result, errorMessage) ==
    [u EXCEPT !.extractedData = result, !.progress = 100,
              !.error = IF errorMessage # <<>> THEN errorMessage ELSE @]

\* processImage after await scanReceiptImage resolved with result
AfterScan(u, requestId, result) ==
    IF result = <<>> \/ ~IsLatest(requestId, u.requestIdRef) THEN Finally(u, requestId)
    ELSE Finally(Shown(u, result, getNoAmountErrorMessage(result[1])), requestId)

\* processImage after an await, by the outcome of the promise awaited
AfterAwait(u, requestId, outcome) ==
    IF outcome.state = "rejected" THEN Finally(Catch(u, requestId), requestId)
    ELSE AfterScan(u, requestId, outcome.value)

RequestLocals ==
    [requestId |-> 0, readerPending |-> FALSE, latestProgress |-> 0, outcome |-> Pending]

InitUi ==
    /\ pc = [r \in Requests |-> "idle"]
    /\ args \in [Requests -> Files]
    /\ ret = [r \in Requests |-> "pending"]
    /\ reLastIndex = FreshLastIndex
    /\ locals = [r \in Requests |-> RequestLocals]
    /\ tesseract = <<>>
    /\ ui = [isProcessing |-> FALSE, extractedData |-> <<>>, error |-> <<>>,
             imagePreview |-> <<>>, progress |-> 0, requestIdRef |-> 0, mounted |-> TRUE]

\* processImage(file) up to its first await
ProcessImage(r) ==
    /\ ui.mounted
    /\ pc[r] = "idle"
    /\ \A q \in 1..(r - 1) : pc[q] # "idle"
    /\ ui' = [ui EXCEPT !.requestIdRef = @ + 1, !.isProcessing = TRUE,
                        !.error = <<>>, !.progress = 0]
    /\ locals' = [locals EXCEPT ![r].requestId = ui.requestIdRef + 1,
                                ![r].readerPending = TRUE]
    /\ pc' = [pc EXCEPT ![r] = "loading"]
    /\ UNCHANGED <<args, ret, reLastIndex, tesseract>>

\* reader.onload with event.target.result: <<string>>, or <<>> for none
ReaderLoad(r, result) ==
    /\ locals[r].readerPending
    /\ locals' = [locals EXCEPT ![r].readerPending = FALSE]
    /\ ui' = IF ~IsLatest(locals[r].requestId, ui.requestIdRef) THEN ui
             ELSE IF result = <<>> THEN ui
             ELSE [ui EXCEPT !.imagePreview = result]
    /\ UNCHANGED <<pc, args, ret, reLastIndex, tesseract>>

\* img.onload: the image promise resolves and scanReceiptImage is called
ImageLoads(r) ==
    /\ pc[r] = "loading"
    /\ pc' = [pc EXCEPT ![r] = "scanning"]
    /\ UNCHANGED <<args, ret, reLastIndex, locals, tesseract, ui>>

\* img.onerror: the image promise rejects
ImageFails(r) ==
    /\ pc[r] = "loading"
    /\ pc' = [pc EXCEPT ![r] = "settled"]
    /\ locals' = [locals EXCEPT ![r].outcome = Rejected]
    /\ UNCHANGED <<args, ret, reLastIndex, tesseract, ui>>

\* the scan reports: reportProgress(nextProgress) and the onProgress option
ScanProgress(r, nextProgress) ==
    /\ pc[r] = "scanning"
    /\ IF ~IsLatest(locals[r].requestId, ui.requestIdRef) THEN UNCHANGED <<locals, ui>>
       ELSE /\ locals' = [locals EXCEPT ![r].latestProgress =
                                            IF @ > nextProgress THEN @ ELSE nextProgress]
            /\ ui' = [ui EXCEPT !.progress = locals'[r].latestProgress]
    /\ UNCHANGED <<pc, args, ret, reLastIndex, tesseract>>

\* scanReceiptImage resolves: null when shouldContinue() fails, else data
ScanResolved(r, extracted) ==
    /\ pc' = [pc EXCEPT ![r] = "settled"]
    /\ locals' = [locals EXCEPT ![r].outcome =
                      Resolved(PassResult(IsLatest(locals[r].requestId, ui.requestIdRef),
                                          extracted))]
    /\ UNCHANGED <<args, ret, reLastIndex, tesseract, ui>>

ScanResolves(r, text) ==
    /\ pc[r] = "scanning"
    /\ ScanResolved(r, extractAmountsFromText(text, reLastIndex))

\* scanReceiptImage rejects: preprocessImage or Tesseract.recognize threw
ScanRejects(r) ==
    /\ pc[r] = "scanning"
    /\ pc' = [pc EXCEPT ![r] = "settled"]
    /\ locals' = [locals EXCEPT ![r].outcome = Rejected]
    /\ UNCHANGED <<args, ret, reLastIndex, tesseract, ui>>

\* processImage goes on after the await that settled, to its end
Continue(r) ==
    /\ pc[r] = "settled"
    /\ ui' = AfterAwait(ui, locals[r].requestId, locals[r].outcome)
    /\ pc' = [pc EXCEPT ![r] = "done"]
    /\ ret' = [ret EXCEPT ![r] = "resolved"]
    /\ UNCHANGED <<args, reLastIndex, locals, tesseract>>

\* the cleanup of the effect
Unmount ==
    /\ ui.mounted
    /\ ui' = [ui EXCEPT !.mounted = FALSE, !.requestIdRef = @ + 1]
    /\ UNCHANGED <<pc, args, ret, reLastIndex, locals, tesseract>>

\* Try Another Image / Try Again
ResetScanState ==
    /\ ui.mounted
    /\ (ui.extractedData # <<>> /\ ~ui.isProcessing) \/ ui.error # <<>>
    /\ ui' = [ui EXCEPT !.extractedData = <<>>, !.imagePreview = <<>>,
                        !.error = <<>>, !.progress = 0]
    /\ UNCHANGED <<pc, args, ret, reLastIndex, locals, tesseract>>

NextUi ==
    \/ \E r \in Requests :
           \/ ProcessImage(r)
           \/ \E result \in {<<>>, <<"data:" \o args[r]>>} : ReaderLoad(r, result)
           \/ ImageLoads(r)
           \/ ImageFails(r)
           \/ \E nextProgress \in ProgressValues : ScanProgress(r, nextProgress)
           \/ \E text \in ScannedTexts : ScanResolves(r, text)
           \/ ScanRejects(r)
           \/ Continue(r)
    \/ Unmount
    \/ ResetScanState

SpecUi == InitUi /\ [][NextUi]_vars

UiState == <<ui.imagePreview, ui.progress, ui.extractedData, ui.error, ui.isProcessing>>

\* request r has started and is no longer the latest
IsSuperseded(r) == pc[r] # "idle" /\ locals[r].requestId # ui.requestIdRef

\* the step is one of request r
IsStepOf(r) == pc'[r] # pc[r] \/ locals'[r] # locals[r]

\* C19: once a newer processImage call has started or the component has
\* unmounted, no step of an earlier request (reader load, progress, scan
\* completion, failure handling, final cleanup) changes imagePreview,
\* progress, extractedData, error or isProcessing.
C19_OnlyLatestChangesUi ==
    [][\A r \in Requests : IsSuperseded(r) /\ IsStepOf(r) => UiState' = UiState]_vars

\* C19: the first request failed and ended after the second had started;
\* the second is scanning and nothing of the first shows
C19_Witness ==
    /\ pc[1] = "done" /\ pc[2] = "scanning"
    /\ locals[1].outcome = Rejected
    /\ ~locals[1].readerPending /\ locals[2].readerPending
    /\ ui.imagePreview = <<>>
    /\ ui.isProcessing /\ ui.error = <<>> /\ ui.extractedData = <<>>

\* C19: a request that ended after the component had unmounted
C19_WitnessUnmounted ==
    /\ ~ui.mounted
    /\ pc[1] = "done"
    /\ ui.isProcessing
    /\ ui.extractedData = <<>> /\ ui.error = <<>>

\* C20: when the latest request ends, isProcessing is false afterwards, and
\* when it ends on a failure of the image load or of the scan, error is the
\* generic "Could not process image" message.
C20_LatestEndsNotProcessing ==
    [][\A r \in Requests :
           pc[r] = "settled" /\ pc'[r] = "done" /\ locals[r].requestId = ui.requestIdRef =>
               /\ ~ui'.isProcessing
               /\ locals[r].outcome = Rejected => ui'.error = <<GenericMessage>>]_vars

\* C20: the latest request has ended on a failure
C20_Witness ==
    \E r \in Requests :
        /\ pc[r] = "done"
        /\ locals[r].requestId = ui.requestIdRef
        /\ locals[r].outcome = Rejected
        /\ ui.error = <<GenericMessage>>
        /\ ~ui.isProcessing

\* C20: the latest request has ended with a result
C20_WitnessResult ==
    /\ pc[2] = "done"
    /\ locals[2].requestId = ui.requestIdRef
    /\ ui.extractedData = locals[2].outcome.value
    /\ ui.extractedData # <<>>
    /\ ui.progress = 100
    /\ ~ui.isProcessing


\* request r is the one started last
IsLastStarted(r) ==
    /\ pc[r] # "idle"
    /\ \A q \in Requests : pc[q] # "idle" => locals[q].requestId <= locals[r].requestId

\* C29: whenever isProcessing is false and extractedData is not null, what
\* extractedData holds is the result of the request started last; the result
\* of an earlier scan is never shown after a later scan has failed.
C29_ShowsResultOfLastRequest ==
    (ui.mounted /\ ~ui.isProcessing /\ ui.extractedData # <<>>) =>
        \E r \in Requests :
            /\ IsLastStarted(r)
            /\ locals[r].outcome.state = "resolved"
            /\ locals[r].outcome.value = ui.extractedData

\* C29: the result of the first scan shown beside the message of the second
\* scan, which failed
C29_StaleResultBesideError ==
    /\ ui.mounted /\ ~ui.isProcessing
    /\ pc[1] = "done" /\ pc[2] = "done"
    /\ locals[1].outcome.state = "resolved"
    /\ locals[2].outcome = Rejected
    /\ ui.extractedData # <<>>
    /\ ui.extractedData = locals[1].outcome.value
    /\ ui.error = <<GenericMessage>>
---------------------------------------------------------------------------
(* One run of the callback of extractedAmounts.map on one candidate        *)

ScoreMenu ==
    {"PLEASE PAY 20.00", "TOTAL AMOUNT 20.00", "GRAND TOTAL 20.00", "Total due: 20.00",
     "AUTO PAY 9.00", "FINALAMOUNT 20.00", "Coffee 3.00", "SUBTOTAL 18.00", "TAX 2.00"}

\* the most lines of a text scored
MaxScoreLines == 2

RECURSIVE ScoreTexts(_)
ScoreTexts(n) ==
    IF n = 1 THEN ScoreMenu
    ELSE LET shorter == ScoreTexts(n - 1)
         IN  shorter \cup {t \o "\n" \o l : t \in shorter, l \in ScoreMenu}

\* the arguments of a run: the text, its candidates and the one scored
ScoreArguments(text, extractedAmounts) ==
    {[text |-> text, extractedAmounts |-> extractedAmounts, amount |-> extractedAmounts[i]] :
        i \in 1..Len(extractedAmounts)}

\* line, n times, each after a line break
RECURSIVE RepeatLine(_, _)
RepeatLine(line, n) == IF n = 0 THEN "" ELSE "\n" \o line \o RepeatLine(line, n - 1)

\* one subtotal line more than validateTotalRelationship looks at, the
\* earliest of another value
ScoreRuns ==
    {"SUBTOTAL 2.00" \o RepeatLine("SUBTOTAL 18.00", RelationshipWindow),
     "SUBTOTAL 18.00" \o RepeatLine("SUBTOTAL 2.00", RelationshipWindow - 1)}

InitScore ==
    /\ NotScanning
    /\ pc = "ready"
    /\ \E text \in ScoreTexts(MaxScoreLines) \cup ScoreRuns :
           args \in ScoreArguments(text, findAmountsInText(text, 0))
    /\ ret = <<>>
    /\ reLastIndex = FreshLastIndex
    /\ locals = <<>>

\* the local values of the callback when it returns
CallbackLocals(amount, lineCount, maxValue, hasRelationshipAnchors, inTopThreeValues, strong, weak, misleading, payment, category, validation) ==
    [lineCount |-> lineCount, maxValue |-> maxValue,
     hasRelationshipAnchors |-> hasRelationshipAnchors,
     inTopThreeValues |-> inTopThreeValues,
     strong |-> strong, weak |-> weak, misleading |-> misleading, payment |-> payment,
     category |-> category, validation |-> validation,
     score |-> ScoreOf(amount, lineCount, maxValue, hasRelationshipAnchors,
                       inTopThreeValues, strong, weak, misleading, payment,
                       category, validation)]

\* the callback on amount, with what extractAmountsFromText computed before
MapCallback(amount, extractedAmounts, lineCount, maxValue, hasRelationshipAnchors, re) ==
    CallbackLocals(amount, lineCount, maxValue, hasRelationshipAnchors,
                   AmongLargest(amount.value, extractedAmounts),
                   RegExpTest(STRONG_TOTAL_SIGNAL_PATTERN, re.strong,
                              toUpperCase(amount.context)),
                   RegExpTest(WEAK_TOTAL_SIGNAL_PATTERN, re.weak,
                              toUpperCase(amount.context)),
                   RegExpTest(MISLEADING_TOTAL_SIGNAL_PATTERN, re.misleading,
                              toUpperCase(amount.context)),
                   RegExpTest(PAYMENT_SIGNAL_PATTERN, re.payment,
                              toUpperCase(amount.context)),
                   categorizeAmount(amount, extractedAmounts),
                   validateTotalRelationship(amount.value, extractedAmounts))

\* ret = <<score>>
ScoreCandidate ==
    /\ pc = "ready"
    /\ locals' = MapCallback(args.amount, args.extractedAmounts,
                             Len(Split(args.text, "\n")),
                             MaxValue(Tail(args.extractedAmounts),
                                      Head(args.extractedAmounts).value),
                             SomeAnchor(args.extractedAmounts, 1, reLastIndex.anchor).found,
                             reLastIndex)
    /\ ret' = <<locals'.score>>
    /\ pc' = "done"
    /\ UNCHANGED <<args, reLastIndex, tesseract, ui>>

NextScore == ScoreCandidate

SpecScore == InitScore /\ [][NextScore]_vars

NotFound == [found |-> FALSE, lastIndex |-> 0]

\* what the strong total signal adds: the score less the score without it
StrongContribution ==
    RSub(ret[1],
         ScoreOf(args.amount, locals.lineCount, locals.maxValue,
                 locals.hasRelationshipAnchors, locals.inTopThreeValues, NotFound,
                 locals.weak, locals.misleading, locals.payment, locals.category,
                 locals.validation))

\* what the position adds: the score less the score of the same candidate on
\* the first of two lines
PositionContribution ==
    RSub(ret[1],
         ScoreOf([args.amount EXCEPT !.lineIndex = 0], 2, locals.maxValue,
                 locals.hasRelationshipAnchors, locals.inTopThreeValues, locals.strong,
                 locals.weak, locals.misleading, locals.payment, locals.category,
                 locals.validation))

\* the strong total rule of categorizeAmount holds for the context
IsStrongTotalForCategory(context) == TestI(StrongTotalKeywords, toUpperCase(context))

\* C24: a candidate is given +4.2 for a strong total signal exactly when its
\* context holds one of GRAND TOTAL, TOTAL DUE, AMOUNT DUE, BALANCE DUE,
\* PLEASE PAY, FINAL AMOUNT, TO PAY: the contexts scored as strong total are
\* those the strong total rule of categorizeAmount takes.
C24_StrongSetsAgree ==
    pc = "done" =>
        /\ HasStrongWord(args.amount.context) <=> IsStrongTotalForCategory(args.amount.context)
        /\ StrongContribution =
               IF IsStrongTotalForCategory(args.amount.context) THEN Dec(42, 1) ELSE Zero

\* C24: PLEASE PAY is a strong total for categorizeAmount and adds nothing
\* to the score
C24_WitnessPleasePay ==
    /\ pc = "done"
    /\ args.amount.context = "PLEASE PAY 20.00"
    /\ IsStrongTotalForCategory(args.amount.context)
    /\ locals.category = "total"
    /\ StrongContribution = Zero

\* C24: TOTAL AMOUNT adds 4.2 and is no strong total for categorizeAmount
C24_WitnessTotalAmount ==
    /\ pc = "done"
    /\ args.amount.context = "TOTAL AMOUNT 20.00"
    /\ ~IsStrongTotalForCategory(args.amount.context)
    /\ StrongContribution = Dec(42, 1)

\* C25 as stated: the position adds 1.6 * lineIndex / (lines - 1) in a text
\* of more than one line and 0 in a text of one line.
C25_SingleLineNoBonus ==
    pc = "done" =>
        PositionContribution =
            IF locals.lineCount > 1
            THEN RMul(Dec(16, 1), Rat(args.amount.lineIndex, locals.lineCount - 1))
            ELSE Zero

\* C25: the position adds 1.6 * lineIndex / (lines - 1) in a text of more
\* than one line and the full 1.6 in a text of one line.
C25_SingleLineFullBonus ==
    pc = "done" =>
        PositionContribution =
            IF locals.lineCount > 1
            THEN RMul(Dec(16, 1), Rat(args.amount.lineIndex, locals.lineCount - 1))
            ELSE Dec(16, 1)

\* C25: the candidate of a text of one line, with 1.6 for its position
C25_Witness ==
    /\ pc = "done"
    /\ locals.lineCount = 1
    /\ args.amount.lineIndex = 0
    /\ PositionContribution = Dec(16, 1)

\* C25: candidates on the first and on the last of two lines
C25_WitnessTwoLines ==
    /\ pc = "done"
    /\ locals.lineCount = 2
    /\ args.amount.lineIndex = 1
    /\ PositionContribution = Dec(16, 1)


\* what the validation adds: the score less the score had the candidate not
\* validated in a text without anchors
ValidationContribution ==
    RSub(ret[1],
         ScoreOf(args.amount, locals.lineCount, locals.maxValue, FALSE,
                 locals.inTopThreeValues, locals.strong, locals.weak, locals.misleading,
                 locals.payment, locals.category, [valid |-> FALSE, confidence |-> Zero]))

\* the candidate scored is one of the 5 candidates with the highest line
\* indexes among those whose context holds a subtotal keyword
IsLatestSubtotal ==
    \E i \in Latest(args.extractedAmounts, Holding(args.extractedAmounts, SubtotalKeywords)) :
        args.extractedAmounts[i] = args.amount

\* C30: the value of a candidate that is one of the 5 subtotal candidates
\* with the highest line indexes always validates against the candidates,
\* with confidence 0.96: the candidate is given 2.4 x 0.96 and never -0.6.
C30_SubtotalValidatesItself ==
    (pc = "done" /\ IsLatestSubtotal) =>
        /\ locals.validation = [valid |-> TRUE, confidence |-> Dec(96, 2)]
        /\ ValidationContribution = RMul(Dec(24, 1), Dec(96, 2))

\* C30: a subtotal candidate of a text that has a tax line as well
C30_Witness ==
    /\ pc = "done"
    /\ args.text = "SUBTOTAL 18.00\nTAX 2.00"
    /\ args.amount.value = Dec(1800, 2)
    /\ IsLatestSubtotal
    /\ locals.hasRelationshipAnchors
    /\ locals.validation.valid

\* C30: the earliest of six subtotal lines is not looked at, and its value
\* does not validate
C30_WitnessSixth ==
    /\ pc = "done"
    /\ args.amount.lineIndex = 0
    /\ args.amount.value = Dec(200, 2)
    /\ ~IsLatestSubtotal
    /\ ~locals.validation.valid
    /\ ValidationContribution = Dec(-6, 1)

\* C30: the fifth subtotal line from the end, which validates
C30_WitnessFifth ==
    /\ pc = "done"
    /\ Len(args.extractedAmounts) = RelationshipWindow
    /\ args.amount.lineIndex = 0
    /\ IsLatestSubtotal
    /\ locals.validation.confidence = Dec(96, 2)

===========================================================================
